---- MODULE Spec2Model ----
(***************************************************************************)
(* A model of the stereonet orientation engine (transformation.py,         *)
(* analysis.py): direction cosines, Line, Plane, rotation about an axis    *)
(* and the fold best-fit search.                                           *)
(*                                                                         *)
(* NUMBERS.  The program computes in IEEE doubles.  The model computes in  *)
(* a two-level fixed point.  A number is a pair <<m, t>>:                  *)
(*   m  the main part, in units of 1/Scale;                                *)
(*   t  the residue, in units of Delta/Res, where Delta = 6.12e-17 is the  *)
(*      value of math.cos(math.pi / 2): the float pi/2 is Delta short of   *)
(*      the real pi/2, so the trigonometric functions of the float         *)
(*      multiples of pi/2 are not 0 but small multiples of Delta           *)
(*      (cos(pi/2) = Delta, sin(pi) = 2 Delta, cos(3pi/2) = -3 Delta,      *)
(*      sin(2pi) = -4 Delta).                                              *)
(* The residue is carried to first order through + - * ; it decides a      *)
(* comparison only when the main part is 0.  Angles are whole degrees: the *)
(* angle d stands for the float radians(d), and asin/atan answer with the  *)
(* nearest whole degree.                                                   *)
(*                                                                         *)
(* LIMITS.  The rounding error of the single float operations is not in    *)
(* the model.  Where the terms of first order cancel (a rotated component  *)
(* that is 0 in exact arithmetic) the float result is a rounding error of  *)
(* either sign; the model has 0 there (Canon).  On the grids of 30 and 45  *)
(* degrees the rotations of the model and of the program agree to 0.01 in  *)
(* every direction cosine, except for about 1 in 100 results on the        *)
(* horizon, where the program returns the opposite horizon point.          *)
(***************************************************************************)
EXTENDS Integers, Sequences, FiniteSets, TLC

\* ------------------------------------------------------------ numbers

\* One unit of the main part is 1/Scale.
Scale == 10^4

\* One unit of the residue is Delta/Res.
Res == 10^2

\* A main part this close to 0 is rounding noise of the sine table (the
\* exact value is 0): the value of such a number is its residue.
Noise == Scale \div 2500

\* sys.float_info.epsilon = 2.22e-16 = 3.63 Delta, in residue units.
Epsilon == 363

\* x / d rounded to the nearest integer (d > 0).
RDiv(x, d) == (2 * x + d) \div (2 * d)

Abs(x) == IF x < 0 THEN -x ELSE x

Sgn(x) == IF x < 0 THEN -1 ELSE IF x > 0 THEN 1 ELSE 0

Max2(a, b) == IF a >= b THEN a ELSE b

Num(m) == <<m, 0>>

Zero == <<0, 0>>

One == <<Scale, 0>>

Add(a, b) == <<a[1] + b[1], a[2] + b[2]>>

Neg(a) == <<-a[1], -a[2]>>

Sub(a, b) == Add(a, Neg(b))

\* The product, the residue to first order in Delta.
Mul(a, b) == <<RDiv(a[1] * b[1], Scale), RDiv(a[1] * b[2] + a[2] * b[1], Scale)>>

ResNoise == Res \div 50

\* A sum of products whose main part is within the noise is the residue alone.
Canon(a) ==
    IF Abs(a[1]) <= Noise THEN <<0, IF Abs(a[2]) <= ResNoise THEN 0 ELSE a[2]>>
    ELSE a

\* The comparisons of the code: x < 0, x == 0, x >= 0.
Lt0(a) == a[1] < 0 \/ (a[1] = 0 /\ a[2] < 0)

Is0(a) == a[1] = 0 /\ a[2] = 0

Ge0(a) == ~Lt0(a)

\* math.sqrt on a non-negative integer, rounded to the nearest integer.
RECURSIVE SqrtSearch(_, _, _)
SqrtSearch(n, lo, hi) ==
    IF hi - lo <= 1 THEN lo
    ELSE LET mid == (lo + hi) \div 2
         IN IF mid * mid <= n THEN SqrtSearch(n, mid, hi)
            ELSE SqrtSearch(n, lo, mid)

ISqrt(n) ==
    LET r == SqrtSearch(n, 0, 46341)
    IN IF (r + 1) * (r + 1) - n < n - r * r THEN r + 1 ELSE r

\* ------------------------------------------------------------ trigonometry

\* round(Scale * sin(d degrees)) for d = 0..90.
SinTable ==
   << 0, 175, 349, 523, 698, 872, 1045, 1219, 1392, 1564,
      1736, 1908, 2079, 2250, 2419, 2588, 2756, 2924, 3090, 3256,
      3420, 3584, 3746, 3907, 4067, 4226, 4384, 4540, 4695, 4848,
      5000, 5150, 5299, 5446, 5592, 5736, 5878, 6018, 6157, 6293,
      6428, 6561, 6691, 6820, 6947, 7071, 7193, 7314, 7431, 7547,
      7660, 7771, 7880, 7986, 8090, 8192, 8290, 8387, 8480, 8572,
      8660, 8746, 8829, 8910, 8988, 9063, 9135, 9205, 9272, 9336,
      9397, 9455, 9511, 9563, 9613, 9659, 9703, 9744, 9781, 9816,
      9848, 9877, 9903, 9925, 9945, 9962, 9976, 9986, 9994, 9998,
      10000 >>

\* The main part of sin(d degrees), any integer d.
SinPlace(a) ==
    IF a <= 90 THEN a + 1
    ELSE IF a <= 180 THEN 181 - a
    ELSE IF a <= 270 THEN a - 179
    ELSE 361 - a

SinMain(d) == (IF d % 360 <= 180 THEN 1 ELSE -1) * SinTable[SinPlace(d % 360)]

CosMain(d) == SinMain(d + 90)

\* math.sin of the float radians(d).  At a multiple of 180 degrees, d = 90 k
\* with k even, the float angle is k Delta short of the real one and the sine
\* is -k Delta cos(k pi/2).
sin(d) ==
    IF d % 180 = 0
    THEN LET k == d \div 90
         IN <<0, (IF k % 4 = 0 THEN -k ELSE k) * Res>>
    ELSE Num(SinMain(d))

\* math.cos of the float radians(d).  At an odd multiple of 90 degrees,
\* d = 90 k, the cosine is k Delta sin(k pi/2).
cos(d) ==
    IF d % 180 = 90
    THEN LET k == d \div 90
         IN <<0, (IF k % 4 = 1 THEN k ELSE -k) * Res>>
    ELSE Num(CosMain(d))

\* The largest d in lo..hi-1 with SinMain(d) <= m, given SinMain(lo) <= m.
RECURSIVE AsinSearch(_, _, _)
AsinSearch(m, lo, hi) ==
    IF hi - lo <= 1 THEN lo
    ELSE LET mid == (lo + hi) \div 2
         IN IF SinMain(mid) <= m THEN AsinSearch(m, mid, hi)
            ELSE AsinSearch(m, lo, mid)

\* math.asin of a main part m in -Scale..Scale: the nearest whole degree.
AsinNearest(m, d) == IF SinMain(d + 1) - m < m - SinMain(d) THEN d + 1 ELSE d

asin(m) ==
    IF m >= Scale THEN 90
    ELSE IF m <= -Scale THEN -90
    ELSE AsinNearest(m, AsinSearch(m, -90, 90))

\* The largest d in lo..hi-1 with sin(d) n - cos(d) e <= 0 (n > 0).
RECURSIVE AtanSearch(_, _, _, _)
AtanSearch(e, n, lo, hi) ==
    IF hi - lo <= 1 THEN lo
    ELSE LET mid == (lo + hi) \div 2
         IN IF SinMain(mid) * n - CosMain(mid) * e <= 0
            THEN AtanSearch(e, n, mid, hi)
            ELSE AtanSearch(e, n, lo, mid)

\* math.atan(e / n) for integers e and n > 0: the nearest whole degree.
AtanNearest(e, n, d) ==
    IF SinMain(d + 1) * n - CosMain(d + 1) * e < CosMain(d) * e - SinMain(d) * n
    THEN d + 1 ELSE d

atan(e, n) == AtanNearest(e, n, AtanSearch(e, n, -90, 90))

\* ------------------------------------------------------------ DirectionCosines

\* A DirectionCosines is a triple <<north, east, down>> of numbers.
Vec(n, e, d) == <<Num(n), Num(e), Num(d)>>

VNeg(v) == <<Neg(v[1]), Neg(v[2]), Neg(v[3])>>

VAdd(v, w) == <<Add(v[1], w[1]), Add(v[2], w[2]), Add(v[3], w[3])>>

VSub(v, w) == <<Sub(v[1], w[1]), Sub(v[2], w[2]), Sub(v[3], w[3])>>

\* cross_product with the second component the other way round.
cross_product_second_reversed(s, o) ==
    << Canon(Sub(Mul(s[2], o[3]), Mul(s[3], o[2]))),
       Canon(Sub(Mul(s[1], o[3]), Mul(s[3], o[1]))),
       Canon(Sub(Mul(s[1], o[2]), Mul(s[2], o[1]))) >>

cross_product(s, o) ==
    << Canon(Sub(Mul(s[2], o[3]), Mul(s[3], o[2]))),
       Canon(Sub(Mul(s[3], o[1]), Mul(s[1], o[3]))),
       Canon(Sub(Mul(s[1], o[2]), Mul(s[2], o[1]))) >>

\* dot_product leaving out the last component.
dot_product_of_two_components(s, o) ==
    Canon(Add(Mul(s[1], o[1]), Mul(s[2], o[2])))

dot_product(s, o) ==
    Canon(Add(Add(Mul(s[1], o[1]), Mul(s[2], o[2])), Mul(s[3], o[3])))

\* float(self) == 0: every component is exactly 0, the division raises.
IsZeroVec(v) == Is0(v[1]) /\ Is0(v[2]) /\ Is0(v[3])

\* self / float(self).  A vector with a main part is divided by the length
\* of its main parts; a vector of residues only (length of the order of
\* Delta) becomes a vector of main parts.
Biggest(v) == Max2(Abs(v[1][1]), Max2(Abs(v[2][1]), Abs(v[3][1])))

\* The main parts over d, d keeping the squares within the integers.
Shrunk(v, d) == <<v[1][1] \div d, v[2][1] \div d, v[3][1] \div d>>

LengthOf(w) == ISqrt(w[1] * w[1] + w[2] * w[2] + w[3] * w[3])

OverLength(v, w, d, len) ==
    << <<RDiv(w[1] * Scale, len), RDiv(v[1][2] * Scale, len * d)>>,
       <<RDiv(w[2] * Scale, len), RDiv(v[2][2] * Scale, len * d)>>,
       <<RDiv(w[3] * Scale, len), RDiv(v[3][2] * Scale, len * d)>> >>

NormalisedMain(v, d) == OverLength(v, Shrunk(v, d), d, LengthOf(Shrunk(v, d)))

ResidueOverLength(v, len) ==
    << <<RDiv(v[1][2] * Scale, len), 0>>,
       <<RDiv(v[2][2] * Scale, len), 0>>,
       <<RDiv(v[3][2] * Scale, len), 0>> >>

normalised(v) ==
    IF v[1][1] # 0 \/ v[2][1] # 0 \/ v[3][1] # 0
    THEN NormalisedMain(v, ((Biggest(v) - 1) \div (2 * Scale)) + 1)
    ELSE ResidueOverLength(v, LengthOf(<<v[1][2], v[2][2], v[3][2]>>))

\* ------------------------------------------------------------ results

\* A call returns a value or raises.
Return(v) == [err |-> "none", val |-> v]

Raise(e) == [err |-> e, val |-> <<>>]

\* The one value of a set that holds a single value: {F(y) : y \in {x}} names
\* the value x once it is worked out.
The(set) == CHOOSE r \in set : TRUE

\* ------------------------------------------------------------ Line

\* An angle argument is a pair <<degrees, residue>>; Deg(d) is the user's d.
Deg(d) == <<d, 0>>

\* Line.__init__ without "plunge = -plunge".
Line_init_keeps_sign(plunge, trend) ==
    LET flip == Lt0(plunge)
        t    == IF flip THEN Deg(trend[1] + 180) ELSE trend
    IN [plunge |-> plunge[1],
        trend  |-> IF t[1] = 0 /\ t[2] < 0 THEN 360 ELSE t[1] % 360]

\* Line.__init__.  trend %= 2 * pi on floats: a negative trend below the
\* float spacing at 2 pi is rounded up to 2 pi itself (360), every other
\* trend lands in [0, 360).
Line_init(plunge, trend) ==
    LET flip == Lt0(plunge)
        t    == IF flip THEN Deg(trend[1] + 180) ELSE trend
    IN [plunge |-> Abs(plunge[1]),
        trend  |-> IF t[1] = 0 /\ t[2] < 0 THEN 360 ELSE t[1] % 360]

\* math.atan(east / north) for north != 0, as an angle argument.
AtanRatio(east, north) ==
    IF north[1] # 0
    THEN IF east[1] # 0
         THEN Deg(atan(Sgn(north[1]) * east[1], Abs(north[1])))
         ELSE <<0, Sgn(north[1]) * east[2]>>
    ELSE IF east[1] # 0
         THEN Deg(90 * Sgn(east[1]) * Sgn(north[2]))
         ELSE Deg(atan(Sgn(north[2]) * east[2], Abs(north[2])))

\* Line.from_direction_cosines without "if north < 0: trend += pi".
\* The trend without "if north < 0: trend += pi".
TrendNoTurn(north, east) ==
    IF Is0(north) THEN (IF Ge0(east) THEN Deg(90) ELSE Deg(270))
    ELSE AtanRatio(east, north)

\* Line.from_direction_cosines never adding pi to the trend.
Turned_never(trend, north) == trend

\* if north < 0: trend += pi
Turned(trend, north) == IF Lt0(north) THEN Deg(trend[1] + 180) ELSE trend

\* The trend of normalised cosines, before Line.__init__ reduces it.
TrendOfCosines(north, east) ==
    IF Is0(north) THEN (IF Ge0(east) THEN Deg(90) ELSE Deg(270))
    ELSE Turned(AtanRatio(east, north), north)

LineOfTrend(down, trend) == Line_init(<<asin(down[1]), down[2]>>, trend)

LineNoTurn(n) == LineOfTrend(n[3], TrendNoTurn(n[1], n[2]))

LineOfNormalised(n) == LineOfTrend(n[3], TrendOfCosines(n[1], n[2]))

Line_from_cosines_no_turn(cosines) == LineNoTurn(normalised(cosines))

\* Line.from_direction_cosines on a non-zero vector.
Line_from_cosines(cosines) == LineOfNormalised(normalised(cosines))

\* Line.from_direction_cosines: normalising the zero vector divides by 0.
Line_from_direction_cosines(cosines) ==
    IF IsZeroVec(cosines) THEN Raise("ZeroDivisionError")
    ELSE Return(Line_from_cosines(cosines))

Line_direction_cosines(self) ==
    << Mul(cos(self.plunge), cos(self.trend)),
       Mul(cos(self.plunge), sin(self.trend)),
       sin(self.plunge) >>

\* The matrix without the (1 - cos) terms of the axis.
MatrixWithoutAxisTerms(north, east, down, rotcos, rotsin) ==
    << << rotcos, Mul(Neg(down), rotsin), Mul(east, rotsin) >>,
       << Mul(down, rotsin), rotcos, Mul(Neg(north), rotsin) >>,
       << Mul(Neg(east), rotsin), Mul(north, rotsin), rotcos >> >>

\* transform, the 3x3 matrix of Line.rotate_around, of the axis cosines, the
\* cosine and sine of the angle and multiplier = 1 - rotcos.
Matrix(north, east, down, rotcos, rotsin, multiplier) ==
    << << Add(rotcos, Mul(Mul(north, north), multiplier)),
          Add(Mul(Neg(down), rotsin), Mul(Mul(north, east), multiplier)),
          Add(Mul(east, rotsin), Mul(Mul(north, down), multiplier)) >>,
       << Add(Mul(down, rotsin), Mul(Mul(east, north), multiplier)),
          Add(rotcos, Mul(Mul(east, east), multiplier)),
          Add(Mul(Neg(north), rotsin), Mul(Mul(east, down), multiplier)) >>,
       << Add(Mul(Neg(east), rotsin), Mul(Mul(down, north), multiplier)),
          Add(Mul(north, rotsin), Mul(Mul(down, east), multiplier)),
          Add(rotcos, Mul(Mul(down, down), multiplier)) >> >>

\* transform without its multiplier terms.
Transform_without_axis_terms(axis, lat) ==
    MatrixWithoutAxisTerms(axis[1], axis[2], axis[3], cos(lat), sin(lat))

\* transform for the axis cosines and the angle lat.
Transform(axis, lat) ==
    Matrix(axis[1], axis[2], axis[3], cos(lat), sin(lat), Sub(One, cos(lat)))

\* rot_cosines with every component cut to its main part: what is below the
\* float noise, cos(pi/2) included, is lost.
Row(row, unrot) ==
    Canon(Add(Add(Mul(row[1], unrot[1]), Mul(row[2], unrot[2])),
              Mul(row[3], unrot[3])))

RowsTimes(transform, unrot) ==
    <<Row(transform[1], unrot), Row(transform[2], unrot), Row(transform[3], unrot)>>

\* Every component cut to its main part.
MainParts(v) == <<Num(v[1][1]), Num(v[2][1]), Num(v[3][1])>>

Rotated_without_residue(self, axis, lat) ==
    MainParts(RowsTimes(Transform(Line_direction_cosines(axis), lat),
                        Line_direction_cosines(self)))

\* rot_cosines: the rows of the matrix times the unrotated cosines.
Rotated(self, axis, lat) ==
    RowsTimes(Transform(Line_direction_cosines(axis), lat),
              Line_direction_cosines(self))

\* -sys.float_info.epsilon < rot_cosines.down < 0
InEpsilon(down) == down[1] = 0 /\ -Epsilon < down[2] /\ down[2] < 0

\* rotate_around without the epsilon correction.
Clamped_never(rot) == rot

\* The epsilon correction: a down component in (-epsilon, 0) becomes 0.
Clamped(rot) == IF InEpsilon(rot[3]) THEN <<rot[1], rot[2], Zero>> ELSE rot

\* The hemisphere correction with <= 0 for < 0.
Corrected_also_at_zero(rot) == IF Lt0(rot[3]) \/ Is0(rot[3]) THEN VNeg(rot) ELSE rot

\* The hemisphere correction: a negative down component negates the vector.
Corrected(rot) == IF Lt0(rot[3]) THEN VNeg(rot) ELSE rot

Line_rotate_around(self, axis, lat) ==
    Line_from_direction_cosines(Corrected(Clamped(Rotated(self, axis, lat))))

\* ------------------------------------------------------------ Plane

\* Plane.pole with the trend turned the wrong way (strike + pi/2).
Plane_pole_wrong_side(strike, dip) == Line_init(Deg(90 - dip), Deg(strike + 90))

\* Plane.pole: Line(trend=strike - pi/2, plunge=pi/2 - dip).
Plane_pole(strike, dip) == Line_init(Deg(90 - dip), Deg(strike - 90))

\* Plane.__init__ without "strike += pi".
Plane_init_no_turn(strike, dip) ==
    LET st == IF strike[1] = 0 /\ strike[2] < 0 /\ ~Lt0(dip) THEN 360
              ELSE strike[1] % 360
        d  == Abs(dip[1])
    IN [strike    |-> st,
        dip       |-> d,
        rot_axis  |-> Plane_pole(st, d),
        base_line |-> Line_init(Deg(0), Deg(st))]

\* Plane.__init__, with the Rotation it builds: its pole as axis and
\* Line(0, strike) as base line.
Plane_init(strike, dip) ==
    LET flip == Lt0(dip)
        s    == IF flip THEN Deg(strike[1] + 180) ELSE strike
        st   == IF s[1] = 0 /\ s[2] < 0 THEN 360 ELSE s[1] % 360
        d    == Abs(dip[1])
    IN [strike    |-> st,
        dip       |-> d,
        rot_axis  |-> Plane_pole(st, d),
        base_line |-> Line_init(Deg(0), Deg(st))]

pole(self) == Plane_pole(self.strike, self.dip)

\* Plane.from_pole taking the trend of the pole for the strike.
Plane_from_pole_along_trend(line) ==
    Plane_init(Deg(line.trend), Deg(90 - line.plunge))

\* Plane.from_pole: Plane(strike=pole.trend + pi/2, dip=pi/2 - pole.plunge).
Plane_from_pole(line) == Plane_init(Deg(line.trend + 90), Deg(90 - line.plunge))

Plane_from_direction_cosines(cosines) ==
    LET line == Line_from_direction_cosines(cosines)
    IN IF line.err # "none" THEN line ELSE Return(Plane_from_pole(line.val))

\* assert dircos1 not in (dircos2, -dircos2): tuple equality, component by
\* component.
SameOrOpposite(dircos1, dircos2) == dircos1 = dircos2 \/ dircos1 = VNeg(dircos2)

Plane_from_spanning_direction_cosines(dircos1, dircos2) ==
    IF SameOrOpposite(dircos1, dircos2) THEN Raise("AssertionError")
    ELSE LET normal == cross_product(dircos1, dircos2)
         IN Plane_from_direction_cosines(Corrected(normal))

Plane_from_spanning_lines(line1, line2) ==
    Plane_from_spanning_direction_cosines(Line_direction_cosines(line1),
                                          Line_direction_cosines(line2))

Plane_direction_cosines(self) ==
    << Mul(sin(self.dip), sin(self.strike)),
       Mul(Neg(sin(self.dip)), cos(self.strike)),
       cos(self.dip) >>

\* ------------------------------------------------------------ Rotation

\* Rotation.__init__
Rotation_init(rot_axis, base_line) == [rot_axis |-> rot_axis, base_line |-> base_line]

\* The sweep over range(samples): it stops one step short of pi.
angles_short_of_pi(samples) ==
    [k \in 1..samples |-> (k - 1) * (180 \div samples)]

\* (i * pi / samples for i in range(samples + 1)), in degrees
angles(samples) ==
    [k \in 1..(samples + 1) |-> (k - 1) * (180 \div samples)]

\* constituent_lines turning the axis about the base line.
constituent_lines_about_base(rot_axis, base_line, samples) ==
    [k \in 1..Len(angles(samples)) |->
        Line_rotate_around(rot_axis, base_line, angles(samples)[k]).val]

\* Rotation.constituent_lines: the base line turned around the axis by
\* i * pi / samples for i = 0 .. samples, in this order.
constituent_lines(rot_axis, base_line, samples) ==
    [k \in 1..Len(angles(samples)) |->
        Line_rotate_around(base_line, rot_axis, angles(samples)[k]).val]

\* ------------------------------------------------------------ projections

\* math.tan of an angle of 0 to 45 degrees.
tan(d) == Num(RDiv(SinMain(d) * Scale, CosMain(d)))

\* math.sqrt(2)
sqrt2 == Num(ISqrt(2 * Scale * Scale))

\* pi/4 - line.plunge/2, for a plunge of an even number of degrees.
QuarterLess(plunge) == (90 - plunge) \div 2

\* EqualArea.line_coordinates without the factor sqrt(2).
EqualArea_without_sqrt2(line) ==
    << Mul(sin(QuarterLess(line.plunge)), sin(line.trend)),
       Mul(sin(QuarterLess(line.plunge)), cos(line.trend)) >>

\* EqualArea.line_coordinates: the pair (x, y).
EqualArea_line_coordinates(line) ==
    << Mul(Mul(sqrt2, sin(QuarterLess(line.plunge))), sin(line.trend)),
       Mul(Mul(sqrt2, sin(QuarterLess(line.plunge))), cos(line.trend)) >>

\* EqualAngle.line_coordinates: the pair (x, y).
EqualAngle_line_coordinates(line) ==
    << Mul(tan(QuarterLess(line.plunge)), sin(line.trend)),
       Mul(tan(QuarterLess(line.plunge)), cos(line.trend)) >>

\* ------------------------------------------------------------ objects

\* a == b and a != b: no class of transformation.py defines __eq__, so the
\* comparison is that of object, by identity.
Object_eq(a, b) == a = b

\* hash(line): of the plunge and the trend.
Line_hash(self) == <<self.plunge, self.trend>>

\* isinstance(obj, cls): a Plane is a Rotation.
isinstance(cls_of_obj, cls) ==
    cls_of_obj = cls \/ (cls_of_obj = "Plane" /\ cls = "Rotation")

Object(cls, val) == [cls |-> cls, val |-> val]

\* ------------------------------------------------------------ DataGroup

None == "None"

\* DataGroup(name, data_type): no data, the data_type given, no callback.
DataGroup_init(data_type) ==
    [made |-> TRUE, data_type |-> data_type, data |-> <<>>, add_item |-> <<>>,
     remove_item |-> <<>>, op |-> "DataGroup", arg |-> data_type,
     ret |-> Return(None), invoked |-> <<>>]

\* for callback in self._callbacks[kind]: callback(self, netobj), the group
\* holding data when they run.
Invoked(callbacks, netobj, data) ==
    [i \in 1..Len(callbacks) |->
        [callback |-> callbacks[i], netobj |-> netobj, net_objects |-> data]]

\* add_net_object running the callbacks before the append.
Appended_after_the_callbacks(self, op, netobj, data) ==
    [self EXCEPT !.data = data, !.op = op, !.arg = netobj,
                 !.ret = Return(None),
                 !.invoked = Invoked(self.add_item, netobj, self.data)]

\* self._data.append(netobj), then the 'add_item' callbacks.
Appended(self, op, netobj, data) ==
    [self EXCEPT !.data = data, !.op = op, !.arg = netobj,
                 !.ret = Return(None),
                 !.invoked = Invoked(self.add_item, netobj, data)]

\* A call that raises: the fields stay, no callback runs.
Raising(self, op, arg, error) ==
    [self EXCEPT !.op = op, !.arg = arg, !.ret = Raise(error),
                 !.invoked = <<>>]

\* group.add_net_object(netobj): the first object of a group without a type
\* gives it its type; the object is checked against the type only when the
\* group holds data.
add_net_object(self, netobj) ==
    IF self.data = <<>> /\ self.data_type = None
    THEN Appended([self EXCEPT !.data_type = netobj.cls], "add_net_object",
                  netobj, <<netobj>>)
    ELSE IF self.data # <<>> /\ ~isinstance(netobj.cls, self.data_type)
    THEN Raising(self, "add_net_object", netobj, "TypeError")
    ELSE Appended(self, "add_net_object", netobj, Append(self.data, netobj))

\* list.remove(x): without the first item equal to x.
FirstPlace(data, netobj) ==
    CHOOSE i \in 1..Len(data) :
        /\ Object_eq(data[i], netobj)
        /\ \A j \in 1..(i - 1) : ~Object_eq(data[j], netobj)

Without(data, place) ==
    [i \in 1..(Len(data) - 1) |-> IF i < place THEN data[i] ELSE data[i + 1]]

\* self._data.remove(netobj), then the 'remove_item' callbacks.
Removed(self, netobj, data) ==
    [self EXCEPT !.data = data, !.op = "remove_net_object", !.arg = netobj,
                 !.ret = Return(None),
                 !.invoked = Invoked(self.remove_item, netobj, data)]

\* group.remove_net_object(netobj): list.remove raises ValueError when the
\* object is not in the list.
remove_net_object(self, netobj) ==
    IF \E i \in 1..Len(self.data) : Object_eq(self.data[i], netobj)
    THEN Removed(self, netobj, Without(self.data, FirstPlace(self.data, netobj)))
    ELSE Raising(self, "remove_net_object", netobj, "ValueError")

\* The setter assigning whatever the group holds.
data_type_setter_always_assigning(self, value) ==
    [self EXCEPT !.data_type = value, !.op = "data_type", !.arg = value,
                 !.ret = Return(None), !.invoked = <<>>]

\* group.data_type = value
data_type_setter(self, value) ==
    IF self.data = <<>>
    THEN [self EXCEPT !.data_type = value, !.op = "data_type", !.arg = value,
                      !.ret = Return(None), !.invoked = <<>>]
    ELSE IF self.data_type # value
    THEN Raising(self, "data_type", value, "ValueError")
    ELSE [self EXCEPT !.op = "data_type", !.arg = value,
                      !.ret = Return(None), !.invoked = <<>>]

\* group.register_add_item(callback), group.register_remove_item(callback)
register_add_item(self, callback) ==
    [self EXCEPT !.add_item = Append(@, callback), !.op = "register_add_item",
                 !.arg = callback, !.ret = Return(None), !.invoked = <<>>]

register_remove_item(self, callback) ==
    [self EXCEPT !.remove_item = Append(@, callback),
                 !.op = "register_remove_item", !.arg = callback,
                 !.ret = Return(None), !.invoked = <<>>]

\* ------------------------------------------------------------ Stereonet

NoItems == [w \in {} |-> None]

\* Stereonet.__init__: self._netobjs, self._callbacks = {}, {} on an empty
\* canvas.
Stereonet_init ==
    [netobjs |-> <<>>, callbacks |-> NoItems, items |-> NoItems, created |-> 0,
     op |-> "Stereonet", ret |-> Return(None),
     event |-> None, invoked |-> <<>>]

\* The place of a key in the dict, 0 when it is not a key.
PlaceOf(netobjs, netobj) ==
    IF \E i \in 1..Len(netobjs) : Object_eq(netobjs[i].netobj, netobj)
    THEN CHOOSE i \in 1..Len(netobjs) : Object_eq(netobjs[i].netobj, netobj)
    ELSE 0

\* self._netobjs[netobj] = widget: a key there is keeps its place.
Recorded(netobjs, netobj, widget, place) ==
    IF place = 0 THEN Append(netobjs, [netobj |-> netobj, widget |-> widget])
    ELSE [netobjs EXCEPT ![place].widget = widget]

\* A call on the net that returns None.
Returning(self, op) ==
    [self EXCEPT !.op = op, !.ret = Return(None),
                 !.event = None, !.invoked = <<>>]

\* plot_line and plot_rotation: create_oval or create_line makes a new item,
\* the dict records it for the object, and _bind_all_events binds a handler
\* on the item for every event code of _callbacks.
Plotted(self, netobj, widget) ==
    [Returning(self, "plot") EXCEPT
        !.created = widget,
        !.netobjs = Recorded(self.netobjs, netobj, widget,
                             PlaceOf(self.netobjs, netobj)),
        !.items = widget :> [netobj |-> netobj,
                             bound  |-> [event_code \in DOMAIN self.callbacks
                                            |-> "_bind_all_events"]]
                  @@ self.items]

\* net.plot(netobj): a Line or a Rotation is plotted, anything else raises.
Stereonet_plot(self, netobj) ==
    IF isinstance(netobj.cls, "Line") \/ isinstance(netobj.cls, "Rotation")
    THEN Plotted(self, netobj, self.created + 1)
    ELSE [self EXCEPT !.op = "plot", !.ret = Raise("TypeError"),
                      !.event = None, !.invoked = <<>>]

\* self.delete(widget): the item is gone from the canvas, if it was there.
Deleted(items, widget) == [w \in DOMAIN items \ {widget} |-> items[w]]

\* net.remove_net_object(netobj): the item recorded for the object is
\* deleted, the object stays a key of the dict; an object that is no key is
\* passed over.
Stereonet_remove_net_object(self, netobj) ==
    IF PlaceOf(self.netobjs, netobj) = 0
    THEN Returning(self, "remove_net_object")
    ELSE [Returning(self, "remove_net_object") EXCEPT
             !.items = Deleted(self.items,
                               self.netobjs[PlaceOf(self.netobjs, netobj)].widget)]

\* The first key of the dict whose item was deleted, past the end when every
\* item is on the canvas: tag_bind on an item that does not exist raises
\* TclError.
FirstDeleted(self) ==
    IF \E i \in 1..Len(self.netobjs) : self.netobjs[i].widget \notin DOMAIN self.items
    THEN CHOOSE i \in 1..Len(self.netobjs) :
            /\ self.netobjs[i].widget \notin DOMAIN self.items
            /\ \A j \in 1..(i - 1) : self.netobjs[j].widget \in DOMAIN self.items
    ELSE Len(self.netobjs) + 1

\* _bind_all_netobjs(event_code) as far as it gets: the items recorded for
\* the keys before upto are bound.
BoundUpTo(self, event_code, upto) ==
    [w \in DOMAIN self.items |->
        IF \E i \in 1..(upto - 1) : self.netobjs[i].widget = w
        THEN [self.items[w] EXCEPT
                 !.bound = event_code :> "_bind_all_netobjs" @@ @]
        ELSE self.items[w]]

\* self._callbacks.setdefault(event_code, []).append(command)
Registered(callbacks, event_code, command) ==
    IF event_code \in DOMAIN callbacks
    THEN [callbacks EXCEPT ![event_code] = Append(@, command)]
    ELSE event_code :> <<command>> @@ callbacks

\* bind_netobject that binds no item there is already.
bind_netobject_on_future_items(self, event_code, command) ==
    [Returning(self, "bind_netobject") EXCEPT
        !.callbacks = Registered(self.callbacks, event_code, command)]

\* net.bind_netobject(event_code, command): an event code not seen before is
\* bound on the item of every key of the dict, then the command is appended
\* to the commands of the code.
Stereonet_bind_netobject(self, event_code, command) ==
    IF event_code \in DOMAIN self.callbacks
    THEN [Returning(self, "bind_netobject") EXCEPT
             !.callbacks = Registered(self.callbacks, event_code, command)]
    ELSE IF FirstDeleted(self) <= Len(self.netobjs)
    THEN [self EXCEPT !.op = "bind_netobject",
                      !.ret = Raise("TclError"), !.event = None,
                      !.invoked = <<>>,
                      !.items = BoundUpTo(self, event_code, FirstDeleted(self))]
    ELSE [Returning(self, "bind_netobject") EXCEPT
             !.items = BoundUpTo(self, event_code, Len(self.netobjs) + 1),
             !.callbacks = Registered(self.callbacks, event_code, command)]

\* handler(event) of _bind_handler: every command of the event code is called
\* with the event and the net object of the handler.
Handled(self, event_code, netobj) ==
    IF event_code \in DOMAIN self.callbacks
    THEN [i \in 1..Len(self.callbacks[event_code]) |->
             [command |-> self.callbacks[event_code][i], netobj |-> netobj]]
    ELSE <<>>

\* An event of the code on an item: the handler bound on the item for the
\* code runs, if there is one.
Delivered(self, widget, event_code) ==
    [self EXCEPT !.op = "event", !.ret = Return(None),
                 !.event = [widget |-> widget, event_code |-> event_code],
                 !.invoked = IF event_code \in DOMAIN self.items[widget].bound
                             THEN Handled(self, event_code,
                                          self.items[widget].netobj)
                             ELSE <<>>]

\* ------------------------------------------------------------ serialize

\* An angle an object holds is a float of radians, known by its whole number
\* of degrees d: the float radians(d).  A number of a stored record is a
\* plain number <<main, residue>>, the residue counting units in the last
\* place of the float.

\* math.degrees(x), x the float radians(d): d itself or the float next to it.
DegreesUlps(d) ==
    IF d \in {15, 30, 60, 120, 240} THEN -1
    ELSE IF d \in {105, 210, 255} THEN 1
    ELSE 0

degrees(d) == <<d * Scale, DegreesUlps(d)>>

\* math.radians(v) as an angle argument <<degrees, residue>>: of a whole
\* number of degrees the float the objects hold, of the float next to 105 or
\* to 210 the float next to radians(105) or to radians(210).
RadiansUlps(v) ==
    IF v[2] > 0 /\ v[1] \in {105 * Scale, 210 * Scale} THEN 1 ELSE 0

radians(v) == <<RDiv(v[1], Scale), RadiansUlps(v)>>

\* hasattr(o, name) for every name
HasAttrs(o, names) == names \subseteq DOMAIN o

\* type(o).__name__, by the slots of the classes
TypeOf(o) ==
    IF DOMAIN o = {"plunge", "trend"} THEN "Line"
    ELSE IF DOMAIN o = {"strike", "dip", "rot_axis", "base_line"} THEN "Plane"
    ELSE IF DOMAIN o = {"rot_axis", "base_line"} THEN "Rotation"
    ELSE "other"

\* The encoder trying the Rotation before the Plane.
stereonet_object_encoder_rotation_first(o) ==
    IF HasAttrs(o, {"plunge", "trend"})
    THEN Return([plunge |-> degrees(o.plunge), trend |-> degrees(o.trend)])
    ELSE IF HasAttrs(o, {"rot_axis", "base_line"})
    THEN Return([rotation_axis |-> o.rot_axis, base_line |-> o.base_line])
    ELSE IF HasAttrs(o, {"strike", "dip"})
    THEN Return([strike |-> degrees(o.strike), dip |-> degrees(o.dip)])
    ELSE Raise("TypeError")

\* stereonet_object_encoder(obj), of an object that is no DataGroup and no
\* tk variable: the tries in their order, a try that raises AttributeError
\* giving way to the next, TypeError when none is left.
stereonet_object_encoder(o) ==
    IF HasAttrs(o, {"plunge", "trend"})
    THEN Return([plunge |-> degrees(o.plunge), trend |-> degrees(o.trend)])
    ELSE IF HasAttrs(o, {"strike", "dip"})
    THEN Return([strike |-> degrees(o.strike), dip |-> degrees(o.dip)])
    ELSE IF HasAttrs(o, {"rot_axis", "base_line"})
    THEN Return([rotation_axis |-> o.rot_axis, base_line |-> o.base_line])
    ELSE Raise("TypeError")

\* json.dump(obj, default=stereonet_object_encoder): the encoder is called
\* for the object and then for the two Lines a Rotation's record holds.  The
\* text written and read back keeps every float as it is (repr of a float
\* reads back as the same float).
Dumped(top) ==
    IF top.err = "none" /\ HasAttrs(top.val, {"rotation_axis"})
    THEN Return([rotation_axis |->
                     stereonet_object_encoder(top.val.rotation_axis).val,
                 base_line |->
                     stereonet_object_encoder(top.val.base_line).val])
    ELSE top

\* stereonet_object_decoder(obj), of a record that is not that of a
\* DataGroup: a Line, a Plane or a Rotation by the keys, else the record.
stereonet_object_decoder(obj) ==
    IF HasAttrs(obj, {"plunge", "trend"})
    THEN Line_init(radians(obj.plunge), radians(obj.trend))
    ELSE IF HasAttrs(obj, {"strike", "dip"})
    THEN Plane_init(radians(obj.strike), radians(obj.dip))
    ELSE IF HasAttrs(obj, {"rotation_axis", "base_line"})
    THEN Rotation_init(obj.rotation_axis, obj.base_line)
    ELSE obj

\* json.load(file, object_hook=stereonet_object_decoder): the decoder is
\* called for the records inside a record first, then for the record.
Loaded(record) ==
    IF HasAttrs(record, {"rotation_axis", "base_line"})
    THEN stereonet_object_decoder(
             [rotation_axis |-> stereonet_object_decoder(record.rotation_axis),
              base_line     |-> stereonet_object_decoder(record.base_line)])
    ELSE stereonet_object_decoder(record)

\* ------------------------------------------------------------ Fold

\* round() taking a half to the neighbour above.
half_points_rounding_up(n) == (n + 1) \div 2

\* int(round(n / 2)): round() takes a half to the even neighbour.
half_points(n) ==
    LET k == n \div 2
    IN IF n % 2 = 0 \/ k % 2 = 0 THEN k ELSE k + 1

RECURSIVE SumSeq(_)
SumSeq(s) ==
    IF Len(s) = 1 THEN s[1] ELSE VAdd(SumSeq(SubSeq(s, 1, Len(s) - 1)), s[Len(s)])

\* sum_iterable: next() on an empty iterable lets StopIteration escape.
sum_iterable(s) == IF s = <<>> THEN Raise("StopIteration") ELSE Return(SumSeq(s))

RECURSIVE SumDips(_)
SumDips(s) == IF s = <<>> THEN 0 ELSE SumDips(Tail(s)) + Head(s)

\* average of a list of whole degrees, as a number of degrees.
average(s) ==
    IF s = <<>> THEN Raise("StopIteration")
    ELSE Return(Num(RDiv(SumDips(s) * Scale, Len(s))))

\* poles_dir_cos.sort(key=lambda c: c.down, reverse=True): largest down first,
\* equal downs in their order of arrival.
RECURSIVE SortedByDown(_)
SortedByDown(s) ==
    IF s = <<>> THEN <<>>
    ELSE LET rest == SortedByDown(SubSeq(s, 1, Len(s) - 1))
             x    == s[Len(s)]
             k    == Cardinality({i \in 1..Len(rest) : ~Lt0(Sub(rest[i][3], x[3]))})
         IN SubSeq(rest, 1, k) \o <<x>> \o SubSeq(rest, k + 1, Len(rest))

\* The differences the i-th pole adds: p - pole for every p not in seen, seen
\* being the first i cosines.
DiffsFrom(dc, i) ==
    LET unseen == SelectSeq(dc, LAMBDA p : \A j \in 1..i : dc[j] # p)
    IN [k \in 1..Len(unseen) |-> VSub(unseen[k], dc[i])]

RECURSIVE DiffsUpTo(_, _)
DiffsUpTo(dc, i) == IF i = 0 THEN <<>> ELSE DiffsUpTo(dc, i - 1) \o DiffsFrom(dc, i)

differences(dc) == DiffsUpTo(dc, Len(dc))

\* Fold.__init__: a Plane gives its pole, a Line is a pole already.
IsPlane(item) == "strike" \in DOMAIN item

Fold_init(planes_or_poles) ==
    [i \in 1..Len(planes_or_poles) |->
        IF IsPlane(planes_or_poles[i]) THEN pole(planes_or_poles[i])
                                       ELSE planes_or_poles[i]]

\* diff if positive_diff_dir.dot_product(diff) >= 0 else -diff, for every diff
Aligned(diffs, positive_diff_dir) ==
    [k \in 1..Len(diffs) |->
        IF Ge0(dot_product(positive_diff_dir, diffs[k]))
        THEN diffs[k] ELSE VNeg(diffs[k])]

\* The trend of the Line made of the summed differences.
TrendOf(line) == IF line.err # "none" THEN line ELSE Return(line.val.trend)

StrikeOfSum(summed) ==
    IF summed.err # "none" THEN summed
    ELSE TrendOf(Line_from_direction_cosines(summed.val))

\* positive_diff_dir is Line(0, avg_pole.trend - pi/2).direction_cosines().
StrikeFromAverage(avg_pole, poles_dir_cos) ==
    IF avg_pole.err # "none" THEN avg_pole
    ELSE StrikeOfSum(sum_iterable(
             Aligned(differences(poles_dir_cos),
                     Line_direction_cosines(
                         Line_init(Deg(0), Deg(avg_pole.val.trend - 90))))))

StrikeFromTotal(total, poles_dir_cos) ==
    IF total.err # "none" THEN total
    ELSE StrikeFromAverage(Line_from_direction_cosines(total.val), poles_dir_cos)

StrikeFromCosines(poles_dir_cos) ==
    StrikeFromTotal(sum_iterable(poles_dir_cos), poles_dir_cos)

\* Fold.profile_plane_strike: the strike in degrees, or what it raises.
profile_plane_strike(poles) ==
    StrikeFromCosines(
        SortedByDown([i \in 1..Len(poles) |-> Line_direction_cosines(poles[i])]))

\* is_left_of_plane(axis, dip)(pole)
is_left_of_plane(axis, dip, pole_) ==
    Lt0(Line_direction_cosines(Line_rotate_around(pole_, axis, dip).val)[2])

\* sum(1 for _ in below_best_fit)
LeftCount(poles, strike, dip) ==
    Cardinality({i \in 1..Len(poles) :
                    is_left_of_plane(Line_init(Deg(0), Deg(strike)), dip, poles[i])})

\* The search loop stopping one candidate short of pi/2.
InRange_open(dip) == dip < 90

\* while dip <= pi/2
InRange(dip) == dip <= 90

\* The candidate dips of the search in the order tried: -pi/2, then one
\* increment more each time, while dip <= pi/2.
Candidates(increment) ==
    [k \in 1..(180 \div increment + 1) |-> (k - 1) * increment - 90]

\* possible_dips after the loop of profile_plane_dip.
possible_dips(poles, strike, increment) ==
    SelectSeq(Candidates(increment),
              LAMBDA dip : LeftCount(poles, strike, dip) = half_points(Len(poles)))

DipOf(dips) ==
    The({IF found = <<>> THEN Raise("ValueError") ELSE average(found) :
            found \in {dips}})

\* Fold.profile_plane_dip(strike, increment), strike being what was given or
\* what profile_plane_strike returned or raised.
profile_plane_dip(poles, strike_, increment) ==
    The({IF strike.err # "none" THEN strike
         ELSE DipOf(possible_dips(poles, strike.val, increment)) :
            strike \in {strike_}})

PlaneOfDip(strike, dip) ==
    The({IF d.err # "none" THEN d
         ELSE Return(Plane_init(Deg(strike.val), Deg(RDiv(d.val[1], Scale)))) :
            d \in {dip}})

\* Fold.profile_plane(dip_increment), the dip to the whole degree.
profile_plane(poles, dip_increment) ==
    The({PlaneOfDip(strike, profile_plane_dip(poles, strike, dip_increment)) :
            strike \in {profile_plane_strike(poles)}})

\* ns_dircos.sort(key=lambda c: c.north, reverse=True): largest north first,
\* equal norths in their order of arrival.
RECURSIVE SortedByNorth(_)
SortedByNorth(s) ==
    IF s = <<>> THEN <<>>
    ELSE LET rest == SortedByNorth(SubSeq(s, 1, Len(s) - 1))
             x    == s[Len(s)]
             k    == Cardinality({i \in 1..Len(rest) : ~Lt0(Sub(rest[i][1], x[1]))})
         IN SubSeq(rest, 1, k) \o <<x>> \o SubSeq(rest, k + 1, Len(rest))

\* The poles turned about the vertical Line(pi/2, 0) by -strike, north first.
NorthToSouth(poles, strike) ==
    SortedByNorth([i \in 1..Len(poles) |->
        Line_direction_cosines(
            Line_rotate_around(poles[i], Line_init(Deg(90), Deg(0)), -strike).val)])

\* int(round(proportion * n)), proportion in 1/Scale: halves go to the even.
cutoff(proportion, n) ==
    LET q == (proportion * n) \div Scale
        r == (proportion * n) % Scale
    IN IF 2 * r > Scale \/ (2 * r = Scale /\ q % 2 = 1) THEN q + 1 ELSE q

\* s[start:stop] of a Python list (0-based, a negative index counts from the
\* end, both ends cut to the list).
SliceIndex(i, n) == IF i < 0 THEN Max2(i + n, 0) ELSE IF i > n THEN n ELSE i

Slice(s, start, stop) ==
    SubSeq(s, SliceIndex(start, Len(s)) + 1, SliceIndex(stop, Len(s)))

VDiv(v, k) == [i \in 1..3 |-> <<RDiv(v[i][1], k), RDiv(v[i][2], k)>>]

\* average() of direction cosines: the sum over the count.
average_cosines(window) ==
    The({IF s = <<>> THEN Raise("StopIteration")
         ELSE Return(VDiv(SumSeq(s), Len(s))) : s \in {window}})

MidpointOf(average_) ==
    The({IF avg.err # "none" THEN avg ELSE Line_from_direction_cosines(avg.val) :
            avg \in {average_}})

SpannedWith(midpoint, profile_pole) ==
    The({IF avg_midpoint.err # "none" THEN avg_midpoint
         ELSE Plane_from_spanning_lines(avg_midpoint.val, profile_pole) :
            avg_midpoint \in {midpoint}})

\* ns_dircos[cutoff-1:cutoff+2]
Window(sorted, proportion) ==
    The({Slice(ns_dircos, cutoff(proportion, Len(ns_dircos)) - 1,
                          cutoff(proportion, Len(ns_dircos)) + 2) :
            ns_dircos \in {sorted}})

\* Fold.axial_plane(profile_plane), profile_plane being the Plane given or
\* what self.profile_plane() returned or raised.
axial_plane(poles, top_limb_proportion, profile_plane_) ==
    IF profile_plane_.err # "none" THEN profile_plane_
    ELSE SpannedWith(
             MidpointOf(average_cosines(
                 Window(NorthToSouth(poles, profile_plane_.val.strike),
                        top_limb_proportion))),
             pole(profile_plane_.val))

\* ------------------------------------------------------------ state

\* hist: the calls made so far on the values in scope, oldest first; each is
\* a record of the operation, its arguments and what it returned or raised.
VARIABLES hist, fold, heap, calls, group, net

vars == <<hist, fold, heap, calls, group, net>>

Call(op, arg, ret) == [op |-> op, arg |-> arg, ret |-> ret]

\* fold: the Fold in scope and the call running on it.  items is what the
\* constructor was given, poles and top_limb_proportion are its fields; caller,
\* strike, increment, dip, possible_dips are the locals of the dip search
\* (increment in whole degrees, rest what the increment has below a degree, in
\* residue units), evaluated the candidates tried so far, ret what the call
\* returned or raised.
NoFold ==
    [pc |-> "none", items |-> <<>>, poles |-> <<>>,
     top_limb_proportion |-> Scale \div 2, caller |-> "none", strike |-> 0,
     increment |-> 0, rest |-> 0, dip |-> 0, possible_dips |-> <<>>,
     evaluated |-> <<>>, ret |-> Return(<<>>)]

\* heap: the objects constructed so far, an object's place in it being its
\* identity; an object is its class and its fields (a Rotation and a Fold hold
\* the identities of their Lines).  calls: the calls made on the objects of
\* the heap, with the identities given and what came back.
NoObjects == heap = <<>> /\ calls = <<>>

\* group: the DataGroup in scope, with its fields (the callbacks registered
\* under 'add_item' and under 'remove_item' as two lists), and the call made
\* on it last: what it returned or raised and the callbacks it invoked, each
\* with the object passed and the data net_objects() held at that moment.
NoGroup ==
    [made |-> FALSE, data_type |-> None, data |-> <<>>, add_item |-> <<>>,
     remove_item |-> <<>>, op |-> "none", arg |-> None, ret |-> Return(None),
     invoked |-> <<>>]

\* net: the Stereonet in scope.  netobjs is the dict _netobjs in the order of
\* its keys, each with the canvas item recorded for it; callbacks is the dict
\* _callbacks; items are the canvas items there are, each with the net object
\* of its handlers and the event codes bound on it, each with the method that
\* bound the handler there is; created counts the items
\* ever created, an item's number being its id.  op and ret are the call
\* made last, event and invoked the event delivered last and the commands
\* its handler invoked, each with the net object passed.
Idle ==
    /\ hist = <<>> /\ fold = NoFold /\ NoObjects /\ group = NoGroup
    /\ net = Stereonet_init

\* What an action on one part of the state leaves alone.
OnlyHist == UNCHANGED <<fold, heap, calls, group, net>>

OnlyFold == UNCHANGED <<hist, heap, calls, group, net>>

OnlyObjects == UNCHANGED <<hist, fold, group, net>>

OnlyGroup == UNCHANGED <<hist, fold, heap, calls, net>>

OnlyNet == UNCHANGED <<hist, fold, heap, calls, group>>

Last == hist[Len(hist)]

\* ------------------------------------------------------------ inputs

\* Constructor arguments are multiples of FineStep degrees, up to MaxRaw
\* steps either way (beyond a full turn), and one Delta either side of 0.
FineStep == 90 \div 6

MaxRaw == 26

RawAngles ==
    {Deg(k * FineStep) : k \in -MaxRaw..MaxRaw} \cup {<<0, -Res>>, <<0, Res>>}

\* Lines and rotation angles are multiples of Step degrees.
Step == 90 \div 2

\* The rotation angles reach MaxLat steps either way.
MaxLat == 9

Lats == {k * Step : k \in -MaxLat..MaxLat}

\* The Lines the constructor builds from in-range angles.
Lines ==
    {Line_init(Deg(p * Step), Deg(t * Step)) : p \in 0..(90 \div Step),
                                               t \in 0..((360 \div Step) - 1)}

\* Direction cosines with whole components up to k.
IntVecs(k) ==
    {Vec(a * Scale, b * Scale, c * Scale) : a \in -k..k, b \in -k..k, c \in -k..k}

\* The second vector of a spanning pair has components up to MaxComp.
MaxComp == 2

\* Unit vectors of every sign pattern: the cosines of the Lines, their
\* opposites and the coordinate axes.
UnitVecs ==
    {Line_direction_cosines(l) : l \in Lines}
    \cup {VNeg(Line_direction_cosines(l)) : l \in Lines}
    \cup {normalised(v) : v \in {w \in IntVecs(1) : ~IsZeroVec(w)}}

Cosines == UnitVecs \cup IntVecs(1)

\* What a Fold is made of: a few poles as Lines, and Planes.
FoldItems ==
    {Line_init(Deg(Step), Deg(0)), Line_init(Deg(Step), Deg(2 * Step)),
     Line_init(Deg(0), Deg(Step)), Line_init(Deg(Step), Deg(4 * Step)),
     Plane_init(Deg(0), Deg(Step))}

\* A Fold has up to MaxPoles items.
MaxPoles == 3

ItemLists == UNION {[1..n -> FoldItems] : n \in 0..MaxPoles}

\* The strikes and the increments given to the dip search, in degrees.
Strikes == {k * Step : k \in 0..3}

Increments == {Step, 2 * Step}

\* The objects of the heap: Lines of two plunges, then either Rotations of
\* these Lines, or a Plane and a Fold of the Lines and the Plane.
ObjectPlunges == {Deg(0), Deg(Step)}

ObjectTrends == {Deg(2 * Step)}

ObjectDips == {Deg(Step), Deg(2 * Step)}

\* At most MaxLineObjects Lines are constructed by hand.
MaxLineObjects == 2

\* A Fold of the heap has up to MaxItems items.
MaxItems == 2

\* What the calls on the objects of the heap are given.
ObjectLats == {Step, -2 * Step}

ObjectSamples == {2}

ObjectStrikes == {0, Step}

ObjectIncrements == {Step}

\* Fold.profile_plane is given the same coarse increment as elsewhere: the
\* increment radians(.1) of the code means 1801 candidate dips.
DefaultIncrement == Step

\* The Lines that are projected: plunges of 0, 30, 60 and 90 degrees, trends
\* every FineStep degrees from 0 up to 360; the Planes whose great circle is
\* sampled: strikes and dips of any sign, as the constructor takes them.
PlotLines ==
    {Line_init(Deg(2 * p * FineStep), Deg(t * FineStep)) :
        p \in 0..3, t \in 0..((360 \div FineStep) - 1)}

MaxTurn == 9

PlotAngles == {k * Step : k \in -MaxTurn..MaxTurn}

PlotSamples == {2, 4}

Ids(cls) == {i \in 1..Len(heap) : heap[i].cls = cls}

\* ------------------------------------------------------------ operations

Init ==
    /\ hist = <<>> /\ fold = NoFold /\ NoObjects /\ group = NoGroup
    /\ net = Stereonet_init

\* Line(plunge, trend)
NewLine ==
    /\ Idle
    /\ \E plunge \in RawAngles, trend \in RawAngles :
          hist' = <<Call("Line", <<plunge, trend>>,
                         Return(Line_init(plunge, trend)))>>
    /\ OnlyHist

\* Plane(strike, dip)
NewPlane ==
    /\ Idle
    /\ \E strike \in RawAngles, dip \in RawAngles :
          hist' = <<Call("Plane", <<strike, dip>>,
                         Return(Plane_init(strike, dip)))>>
    /\ OnlyHist

\* Line.from_direction_cosines(cosines)
FromDirectionCosines ==
    /\ Idle
    /\ \E cosines \in Cosines :
          hist' = <<Call("Line.from_direction_cosines", cosines,
                         Line_from_direction_cosines(cosines))>>
    /\ OnlyHist

\* line.direction_cosines() of the Line the last call returned
DirectionCosines ==
    /\ Len(hist) = 1
    /\ Last.op \in {"Line", "Line.from_direction_cosines", "Line.rotate_around"}
    /\ Last.ret.err = "none"
    /\ hist' = Append(hist, Call("Line.direction_cosines", Last.ret.val,
                                 Return(Line_direction_cosines(Last.ret.val))))
    /\ OnlyHist

\* plane.pole() of the Plane the constructor returned
Pole ==
    /\ Len(hist) = 1
    /\ Last.op = "Plane"
    /\ hist' = Append(hist, Call("Plane.pole", Last.ret.val,
                                 Return(pole(Last.ret.val))))
    /\ OnlyHist

\* Plane.from_pole(line) of the pole the last call returned
FromPole ==
    /\ Len(hist) = 2
    /\ Last.op = "Plane.pole"
    /\ hist' = Append(hist, Call("Plane.from_pole", Last.ret.val,
                                 Return(Plane_from_pole(Last.ret.val))))
    /\ OnlyHist

\* self.dot_product(other)
DotProduct ==
    /\ Idle
    /\ \E self \in Cosines, other \in IntVecs(1) :
          hist' = <<Call("DirectionCosines.dot_product", <<self, other>>,
                         Return(dot_product(self, other)))>>
    /\ OnlyHist

\* Plane.from_direction_cosines(cosines)
PlaneFromDirectionCosines ==
    /\ Idle
    /\ \E cosines \in Cosines :
          hist' = <<Call("Plane.from_direction_cosines", cosines,
                         Plane_from_direction_cosines(cosines))>>
    /\ OnlyHist

\* plane.direction_cosines() of the Plane made from direction cosines
PlaneDirectionCosines ==
    /\ Len(hist) = 1
    /\ Last.op = "Plane.from_direction_cosines"
    /\ Last.ret.err = "none"
    /\ hist' = Append(hist, Call("Plane.direction_cosines", Last.ret.val,
                                 Return(Plane_direction_cosines(Last.ret.val))))
    /\ OnlyHist

\* plane.pole() of the same Plane
PoleOfThePlane ==
    /\ Len(hist) = 2
    /\ Last.op = "Plane.direction_cosines"
    /\ hist' = Append(hist, Call("Plane.pole", Last.arg, Return(pole(Last.arg))))
    /\ OnlyHist

\* pole.direction_cosines() of the pole just taken
PoleDirectionCosines ==
    /\ Len(hist) = 3
    /\ Last.op = "Plane.pole"
    /\ hist[2].op = "Plane.direction_cosines"
    /\ hist' = Append(hist, Call("Line.direction_cosines", Last.ret.val,
                                 Return(Line_direction_cosines(Last.ret.val))))
    /\ OnlyHist

\* Plane.from_spanning_direction_cosines(dircos1, dircos2)
FromSpanningDirectionCosines ==
    /\ Idle
    /\ \E dircos1 \in IntVecs(1), dircos2 \in IntVecs(MaxComp) :
          hist' = <<Call("Plane.from_spanning_direction_cosines",
                         <<dircos1, dircos2>>,
                         Plane_from_spanning_direction_cosines(dircos1, dircos2))>>
    /\ OnlyHist

\* Plane.from_spanning_lines(line1, line2)
FromSpanningLines ==
    /\ Idle
    /\ \E line1 \in Lines, line2 \in Lines :
          hist' = <<Call("Plane.from_spanning_lines", <<line1, line2>>,
                         Plane_from_spanning_lines(line1, line2))>>
    /\ OnlyHist

\* line.rotate_around(axis, lat)
RotateAround ==
    /\ Idle
    /\ \E self \in Lines, axis \in Lines, lat \in Lats :
          hist' = <<Call("Line.rotate_around", <<self, axis, lat>>,
                         Line_rotate_around(self, axis, lat))>>
    /\ OnlyHist

\* The numbers of samples a Rotation is asked for.
RotationSamples == {1, 2, 4}

\* Rotation(rot_axis, base_line).constituent_lines(samples), run to its end
ConstituentLines ==
    /\ Idle
    /\ \E rot_axis \in Lines, base_line \in Lines, samples \in RotationSamples :
          hist' = <<Call("Rotation.constituent_lines",
                         <<Rotation_init(rot_axis, base_line), samples>>,
                         Return(constituent_lines(rot_axis, base_line, samples)))>>
    /\ OnlyHist

\* Fold(planes_or_poles)
NewFold ==
    /\ Idle
    /\ \E planes_or_poles \in ItemLists :
          fold' = [NoFold EXCEPT !.pc = "made",
                                 !.items = planes_or_poles,
                                 !.poles = Fold_init(planes_or_poles)]
    /\ OnlyFold

\* The head of profile_plane_dip: the strike is there or its computation
\* raised, in which case the call ends with that error.
StartSearch(caller, strike, increment) ==
    IF strike.err # "none"
    THEN [fold EXCEPT !.pc = "done", !.caller = caller,
                      !.increment = increment, !.ret = strike]
    ELSE [fold EXCEPT !.pc = "search", !.caller = caller,
                      !.strike = strike.val, !.increment = increment,
                      !.dip = -90, !.possible_dips = <<>>, !.evaluated = <<>>]

\* fold.profile_plane_dip(strike, increment)
ProfilePlaneDip ==
    /\ fold.pc = "made"
    /\ \E strike \in Strikes, increment \in Increments :
          fold' = StartSearch("profile_plane_dip", Return(strike), increment)
    /\ OnlyFold

\* fold.profile_plane_dip(increment=increment): strike is None
ProfilePlaneDipOwnStrike ==
    /\ fold.pc = "made"
    /\ \E increment \in Increments :
          fold' = StartSearch("profile_plane_dip",
                              profile_plane_strike(fold.poles), increment)
    /\ OnlyFold

\* fold.profile_plane(dip_increment)
ProfilePlane ==
    /\ fold.pc = "made"
    /\ \E dip_increment \in Increments :
          fold' = StartSearch("profile_plane",
                              profile_plane_strike(fold.poles), dip_increment)
    /\ OnlyFold

\* One turn of the while loop of profile_plane_dip.
DipStep ==
    /\ fold.pc = "search"
    /\ InRange(fold.dip)
    /\ fold' = [fold EXCEPT
          !.possible_dips =
              IF LeftCount(fold.poles, fold.strike, fold.dip)
                     = half_points(Len(fold.poles))
              THEN Append(@, fold.dip) ELSE @,
          !.evaluated = Append(@, fold.dip),
          !.dip = @ + fold.increment]
    /\ OnlyFold

\* After the loop: the average of the dips found, or ValueError; profile_plane
\* makes the Plane of the strike and the dip (to the whole degree).
DipEnd ==
    /\ fold.pc = "search"
    /\ ~InRange(fold.dip)
    /\ fold' = [fold EXCEPT
          !.pc = "done",
          !.ret = IF fold.possible_dips = <<>> THEN Raise("ValueError")
                  ELSE IF fold.caller = "profile_plane"
                  THEN Return(Plane_init(
                           Deg(fold.strike),
                           Deg(RDiv(average(fold.possible_dips).val[1], Scale))))
                  ELSE average(fold.possible_dips)]
    /\ OnlyFold

\* ---- the dip search in floats

\* The increments given to the dip search as floats: whole degrees, and a
\* positive increment of one Delta (6e-17).
FloatIncrements == {Deg(Step), Deg(2 * Step), <<0, Res>>}

\* dip += increment, dip a whole number of degrees from -pi/2 on: the floats
\* of that size are Epsilon apart, and an increment of less than half of that
\* is lost in the sum.
dip_plus(dip, increment) ==
    IF increment[1] = 0 /\ 2 * increment[2] < Epsilon THEN dip
    ELSE dip + increment[1]

\* The search is followed for up to MaxEvaluated candidates.
MaxEvaluated == 6

\* fold.profile_plane_dip(strike, increment), increment a float
ProfilePlaneDipOfIncrement ==
    /\ fold.pc = "made"
    /\ \E strike \in Strikes, increment \in FloatIncrements :
          fold' = [StartSearch("profile_plane_dip", Return(strike), increment[1])
                      EXCEPT !.rest = increment[2]]
    /\ OnlyFold

\* One turn of the while loop of profile_plane_dip, in floats.
SearchStep ==
    /\ fold.pc = "search"
    /\ InRange(fold.dip)
    /\ Len(fold.evaluated) < MaxEvaluated
    /\ fold' = [fold EXCEPT
          !.possible_dips =
              IF LeftCount(fold.poles, fold.strike, fold.dip)
                     = half_points(Len(fold.poles))
              THEN Append(@, fold.dip) ELSE @,
          !.evaluated = Append(@, fold.dip),
          !.dip = dip_plus(@, <<fold.increment, fold.rest>>)]
    /\ OnlyFold

\* ---- plotting

\* EqualAngle.line_coordinates(line)
EqualAngleCoordinates ==
    /\ Idle
    /\ \E line \in PlotLines :
          hist' = <<Call("EqualAngle.line_coordinates", line,
                         Return(EqualAngle_line_coordinates(line)))>>
    /\ OnlyHist

\* EqualArea.line_coordinates(line)
EqualAreaCoordinates ==
    /\ Idle
    /\ \E line \in PlotLines :
          hist' = <<Call("EqualArea.line_coordinates", line,
                         Return(EqualArea_line_coordinates(line)))>>
    /\ OnlyHist

\* Plane(strike, dip).constituent_lines(samples), run to its end
PlaneConstituentLines ==
    /\ Idle
    /\ \E strike \in PlotAngles, dip \in PlotAngles, samples \in PlotSamples :
          \E plane \in {Plane_init(Deg(strike), Deg(dip))} :
             hist' = <<Call("Rotation.constituent_lines", <<plane, samples>>,
                            Return(constituent_lines(plane.rot_axis,
                                                     plane.base_line, samples)))>>
    /\ OnlyHist

\* ---- the axial plane

\* The proportions of the top limb given to a Fold, in 1/Scale.
Proportions == {Scale \div 10, Scale \div 2, (9 * Scale) \div 10}

\* The profile planes given to axial_plane.
ProfilePlanes == {Plane_init(Deg(0), Deg(Step)), Plane_init(Deg(Step), Deg(Step))}

\* Fold(planes_or_poles, top_limb_proportion).axial_plane(profile_plane), of
\* three items or more, run to its end
AxialPlane ==
    /\ Idle
    /\ \E planes_or_poles \in {items \in ItemLists : Len(items) >= 3},
          top_limb_proportion \in Proportions,
          profile_plane_ \in ProfilePlanes :
          hist' = <<Call("Fold.axial_plane",
                         <<Fold_init(planes_or_poles), top_limb_proportion,
                           profile_plane_>>,
                         axial_plane(Fold_init(planes_or_poles),
                                     top_limb_proportion,
                                     Return(profile_plane_)))>>
    /\ OnlyHist

\* Fold(planes_or_poles).profile_plane_strike(), run to its end
ProfilePlaneStrike ==
    /\ Idle
    /\ \E planes_or_poles \in ItemLists :
          hist' = <<Call("Fold.profile_plane_strike",
                         <<Fold_init(planes_or_poles)>>,
                         profile_plane_strike(Fold_init(planes_or_poles)))>>
    /\ OnlyHist

\* ---- encoding and decoding

\* The angles of the objects written: whole multiples of FineStep degrees in
\* a full turn, and the negative trend or strike that is stored as 2 pi.
SerializeAngles ==
    {Deg(k * FineStep) : k \in 0..((360 \div FineStep) - 1)} \cup {<<0, -Res>>}

SerializeDips == {Deg(k * FineStep) : k \in 0..(90 \div FineStep)}

SerializeLines ==
    {Line_init(plunge, trend) : plunge \in SerializeDips, trend \in SerializeAngles}

SerializePlanes ==
    {Plane_init(strike, dip) : strike \in SerializeAngles, dip \in SerializeDips}

RotationLines ==
    {Line_init(Deg(0), Deg(7 * FineStep)), Line_init(Deg(3 * FineStep), <<0, -Res>>),
     Line_init(Deg(90), Deg(0))}

SerializeRotations ==
    {Rotation_init(rot_axis, base_line) :
        rot_axis \in RotationLines, base_line \in RotationLines}

\* An object the encoder has no try for.
OtherObjects == {[poles |-> <<>>]}

\* json.dump(obj, default=stereonet_object_encoder)
Encode ==
    /\ Idle
    /\ \E obj \in SerializeLines \cup SerializePlanes \cup SerializeRotations
                    \cup OtherObjects :
          hist' = <<Call("stereonet_object_encoder", obj,
                         Dumped(stereonet_object_encoder(obj)))>>
    /\ OnlyHist

\* json.load(file, object_hook=stereonet_object_decoder) of what was written
Decode ==
    /\ Len(hist) = 1
    /\ Last.op = "stereonet_object_encoder"
    /\ Last.ret.err = "none"
    /\ hist' = Append(hist, Call("stereonet_object_decoder", Last.ret.val,
                                 Return(Loaded(Last.ret.val))))
    /\ OnlyHist

\* ---- the group

\* The objects given to the group, each with its identity: a Line, a Plane
\* and a Rotation.
GroupObjects ==
    {[id |-> 1, cls |-> "Line"], [id |-> 2, cls |-> "Plane"],
     [id |-> 3, cls |-> "Rotation"]}

DataTypes == {None, "Line", "Plane", "Rotation"}

GroupCallbacks == {"first", "second"}

MaxData == 2

MaxCallbacks == 2

GroupOnly == hist = <<>> /\ fold = NoFold /\ NoObjects /\ net = Stereonet_init

\* group = DataGroup(name, data_type)
NewGroup ==
    /\ GroupOnly
    /\ ~group.made
    /\ \E data_type \in DataTypes : group' = DataGroup_init(data_type)
    /\ OnlyGroup

\* group.add_net_object(netobj)
GroupAddNetObject ==
    /\ group.made
    /\ Len(group.data) < MaxData
    /\ \E netobj \in GroupObjects : group' = add_net_object(group, netobj)
    /\ OnlyGroup

\* group.remove_net_object(netobj)
GroupRemoveNetObject ==
    /\ group.made
    /\ \E netobj \in GroupObjects : group' = remove_net_object(group, netobj)
    /\ OnlyGroup

\* group.data_type = value
GroupSetDataType ==
    /\ group.made
    /\ \E value \in DataTypes : group' = data_type_setter(group, value)
    /\ OnlyGroup

\* group.register_add_item(callback)
GroupRegisterAddItem ==
    /\ group.made
    /\ Len(group.add_item) < MaxCallbacks
    /\ \E callback \in GroupCallbacks :
          group' = register_add_item(group, callback)
    /\ OnlyGroup

\* group.register_remove_item(callback)
GroupRegisterRemoveItem ==
    /\ group.made
    /\ Len(group.remove_item) < MaxCallbacks
    /\ \E callback \in GroupCallbacks :
          group' = register_remove_item(group, callback)
    /\ OnlyGroup

\* ---- the net

\* The objects given to the net, each with its identity: a Line and a Plane,
\* which are plotted, and a Fold, which is not a net object.
NetObjects ==
    {[id |-> 1, cls |-> "Line"], [id |-> 2, cls |-> "Plane"],
     [id |-> 3, cls |-> "Fold"]}

EventCodes == {"<Enter>", "<Leave>"}

NetCommands == {"first", "second"}

\* At most MaxWidgets items are created, and MaxCommands commands registered
\* for an event code.
MaxWidgets == 2

MaxCommands == 2

NetOnly == hist = <<>> /\ fold = NoFold /\ NoObjects /\ group = NoGroup

\* net.plot(netobj)
NetPlot ==
    /\ NetOnly
    /\ net.created < MaxWidgets
    /\ \E netobj \in NetObjects : net' = Stereonet_plot(net, netobj)
    /\ OnlyNet

\* net.remove_net_object(netobj)
NetRemoveNetObject ==
    /\ NetOnly
    /\ \E netobj \in NetObjects : net' = Stereonet_remove_net_object(net, netobj)
    /\ OnlyNet

\* net.bind_netobject(event_code, command)
NetBindNetObject ==
    /\ NetOnly
    /\ \E event_code \in EventCodes, command \in NetCommands :
          /\ event_code \in DOMAIN net.callbacks
                => Len(net.callbacks[event_code]) < MaxCommands
          /\ net' = Stereonet_bind_netobject(net, event_code, command)
    /\ OnlyNet

\* The pointer is on the item: the item is on the canvas and no item created
\* later for the same object, drawn at the same place above it, is.
Uppermost(widget) ==
    /\ widget \in DOMAIN net.items
    /\ \A w \in DOMAIN net.items :
          w > widget => ~Object_eq(net.items[w].netobj, net.items[widget].netobj)

\* An event of one of the codes happens on an item under the pointer.
NetEvent ==
    /\ NetOnly
    /\ \E widget \in DOMAIN net.items, event_code \in EventCodes :
          /\ Uppermost(widget)
          /\ net' = Delivered(net, widget, event_code)
    /\ OnlyNet

\* ---- on the heap

\* An object is constructed before any call is made.
Constructing == hist = <<>> /\ fold = NoFold /\ calls = <<>>

\* line = Line(plunge, trend)
ObjLine ==
    /\ Constructing
    /\ Cardinality(Ids("Line")) < MaxLineObjects
    /\ Ids("Line") = 1..Len(heap)
    /\ \E plunge \in ObjectPlunges, trend \in ObjectTrends :
          heap' = Append(heap, Object("Line", Line_init(plunge, trend)))
    /\ UNCHANGED calls
    /\ OnlyObjects

\* plane = Plane(strike, dip)
ObjPlane ==
    /\ Constructing
    /\ Ids("Plane") \cup Ids("Rotation") \cup Ids("Fold") = {}
    /\ \E strike \in ObjectTrends, dip \in ObjectDips :
          heap' = Append(heap, Object("Plane", Plane_init(strike, dip)))
    /\ UNCHANGED calls
    /\ OnlyObjects

\* rotation = Rotation(rot_axis, base_line), of two Lines of the heap
ObjRotation ==
    /\ Constructing
    /\ Cardinality(Ids("Rotation")) <= 1
    /\ Ids("Plane") \cup Ids("Fold") = {}
    /\ \E rot_axis \in Ids("Line"), base_line \in Ids("Line") :
          heap' = Append(heap, Object("Rotation", Rotation_init(rot_axis, base_line)))
    /\ UNCHANGED calls
    /\ OnlyObjects

\* Fold.__init__ taking every item as a pole already.
PoleIds_keeping_planes(items) == items

\* The identities of the poles of Fold(items): a Line is its own pole, the
\* pole of a Plane is a new Line, placed after the objects there are.
PoleIds(items) ==
    [i \in 1..Len(items) |->
        IF heap[items[i]].cls = "Plane"
        THEN Len(heap) + Cardinality({j \in 1..i : heap[items[j]].cls = "Plane"})
        ELSE items[i]]

\* The new Lines Fold(items) makes, item.pole() of every Plane, in order.
NewPoles(items) ==
    LET planes == SelectSeq(items, LAMBDA i : heap[i].cls = "Plane")
    IN [k \in 1..Len(planes) |-> Object("Line", pole(heap[planes[k]].val))]

\* fold = Fold(items), of Lines and Planes of the heap
ObjFold ==
    /\ Constructing
    /\ Ids("Rotation") \cup Ids("Fold") = {}
    /\ \E n \in 1..MaxItems :
          \E items \in [1..n -> Ids("Line") \cup Ids("Plane")] :
             heap' = heap \o NewPoles(items)
                          \o <<Object("Fold",
                                      [items |-> items,
                                       poles |-> PoleIds(items),
                                       top_limb_proportion |-> Scale \div 2])>>
    /\ UNCHANGED calls
    /\ OnlyObjects

\* A call is the first one, or the one before made again on the same objects.
MayCall(op, args) ==
    /\ hist = <<>> /\ fold = NoFold
    /\ \/ calls = <<>>
       \/ Len(calls) = 1 /\ calls[1].op = op /\ calls[1].args = args

\* The stores an operation makes to the objects it is given (an assignment to
\* a field, a sort of or an append to a list an object holds), as the objects
\* stored to with what they become.  The operations build what they return
\* out of new values: the lists sorted are the lists just built, += on
\* direction cosines makes a new tuple, the Lines and Planes returned are made
\* by their constructors.  No operation stores to an object it was given.
NoStore == [i \in {} |-> Object("none", <<>>)]

\* The poles of the Fold, the one with the largest down first.
PolesByDown(self) ==
    LET n       == Len(self.poles)
        down(i) == Line_direction_cosines(heap[self.poles[i]].val)[3]
        rank(i) == Cardinality({j \in 1..n : Lt0(Sub(down(i), down(j)))
                                             \/ (j < i /\ down(j) = down(i))})
    IN [k \in 1..n |-> self.poles[CHOOSE i \in 1..n : rank(i) = k - 1]]

\* profile_plane_strike sorting self.poles themselves.
Stores_sorting_the_poles(op, args) ==
    IF op = "Fold.profile_plane_strike"
    THEN args[1] :> [heap[args[1]] EXCEPT !.val.poles = PolesByDown(heap[args[1]].val)]
    ELSE NoStore

Stores(op, args) == NoStore

\* The call is noted with what it returned; the objects are as its stores
\* leave them.
Performed(op, args, ret) ==
    /\ MayCall(op, args)
    /\ calls' = Append(calls, [op |-> op, args |-> args, ret |-> ret])
    /\ heap' = [i \in 1..Len(heap) |->
                   IF i \in DOMAIN Stores(op, args) THEN Stores(op, args)[i]
                                                    ELSE heap[i]]
    /\ OnlyObjects

\* line.direction_cosines()
ObjDirectionCosines ==
    \E line \in Ids("Line") :
        Performed("Line.direction_cosines", <<line>>,
                  Return(Line_direction_cosines(heap[line].val)))

\* line.rotate_around(axis, lat)
ObjRotateAround ==
    \E line \in Ids("Line"), axis \in Ids("Line"), lat \in ObjectLats :
        Performed("Line.rotate_around", <<line, axis, lat>>,
                  Line_rotate_around(heap[line].val, heap[axis].val, lat))

\* plane.pole()
ObjPole ==
    \E plane \in Ids("Plane") :
        Performed("Plane.pole", <<plane>>, Return(pole(heap[plane].val)))

\* Plane.from_pole(line)
ObjFromPole ==
    \E line \in Ids("Line") :
        Performed("Plane.from_pole", <<line>>,
                  Return(Plane_from_pole(heap[line].val)))

\* Plane.from_spanning_lines(line1, line2)
ObjFromSpanningLines ==
    \E line1 \in Ids("Line"), line2 \in Ids("Line") :
        Performed("Plane.from_spanning_lines", <<line1, line2>>,
                  Plane_from_spanning_lines(heap[line1].val, heap[line2].val))

\* The Lines a Rotation of the heap rotates: of a Plane its own pole and
\* Line(0, strike), of a Rotation the Lines it was made of.
AxisOf(id) ==
    IF heap[id].cls = "Plane" THEN heap[id].val.rot_axis
    ELSE heap[heap[id].val.rot_axis].val

BaseLineOf(id) ==
    IF heap[id].cls = "Plane" THEN heap[id].val.base_line
    ELSE heap[heap[id].val.base_line].val

\* rotation.constituent_lines(samples), run to its end
ObjConstituentLines ==
    \E rotation \in Ids("Rotation") \cup Ids("Plane"), samples \in ObjectSamples :
        Performed("Rotation.constituent_lines", <<rotation, samples>>,
                  Return(constituent_lines(AxisOf(rotation), BaseLineOf(rotation),
                                           samples)))

\* The poles of a Fold of the heap, as Lines.
PolesOf(id) ==
    [i \in 1..Len(heap[id].val.poles) |-> heap[heap[id].val.poles[i]].val]

\* fold.profile_plane_strike()
ObjProfilePlaneStrike ==
    \E f \in Ids("Fold") :
        Performed("Fold.profile_plane_strike", <<f>>,
                  profile_plane_strike(PolesOf(f)))

\* fold.profile_plane_dip(strike, increment)
ObjProfilePlaneDip ==
    \E f \in Ids("Fold"), strike \in ObjectStrikes, increment \in ObjectIncrements :
        Performed("Fold.profile_plane_dip", <<f, strike, increment>>,
                  profile_plane_dip(PolesOf(f), Return(strike), increment))

\* fold.profile_plane_dip(increment=increment): strike is None
ObjProfilePlaneDipOwnStrike ==
    \E f \in Ids("Fold"), increment \in ObjectIncrements :
        Performed("Fold.profile_plane_dip, strike=None", <<f, increment>>,
                  profile_plane_dip(PolesOf(f), profile_plane_strike(PolesOf(f)),
                                    increment))

\* fold.profile_plane(dip_increment)
ObjProfilePlane ==
    \E f \in Ids("Fold"), dip_increment \in ObjectIncrements :
        Performed("Fold.profile_plane", <<f, dip_increment>>,
                  profile_plane(PolesOf(f), dip_increment))

\* fold.axial_plane(profile_plane), of a Plane of the heap
ObjAxialPlane ==
    \E f \in Ids("Fold"), plane \in Ids("Plane") :
        Performed("Fold.axial_plane", <<f, plane>>,
                  axial_plane(PolesOf(f), heap[f].val.top_limb_proportion,
                              Return(heap[plane].val)))

\* fold.axial_plane(): profile_plane is None, self.profile_plane() is used
ObjAxialPlaneOwnProfile ==
    \E f \in Ids("Fold") :
        \E own \in {profile_plane(PolesOf(f), DefaultIncrement)} :
            Performed("Fold.axial_plane, profile_plane=None", <<f>>,
                      axial_plane(PolesOf(f), heap[f].val.top_limb_proportion, own))

\* a == b, of two objects of one class
ObjEquals ==
    \E a \in 1..Len(heap), b \in 1..Len(heap) :
        /\ heap[a].cls = heap[b].cls
        /\ Performed("==", <<a, b>>, Return(Object_eq(a, b)))

Next ==
    \/ NewLine
    \/ NewPlane
    \/ FromDirectionCosines
    \/ DirectionCosines
    \/ Pole
    \/ FromPole
    \/ FromSpanningDirectionCosines
    \/ FromSpanningLines
    \/ PlaneFromDirectionCosines
    \/ PlaneDirectionCosines
    \/ PoleOfThePlane
    \/ PoleDirectionCosines
    \/ DotProduct

Spec == Init /\ [][Next]_vars

NextRotate ==
    \/ RotateAround
    \/ DirectionCosines
    \/ ConstituentLines

SpecRotate == Init /\ [][NextRotate]_vars

NextFold ==
    \/ NewFold
    \/ ProfilePlaneDip
    \/ ProfilePlaneDipOwnStrike
    \/ ProfilePlane
    \/ DipStep
    \/ DipEnd

SpecFold == Init /\ [][NextFold]_vars

NextObjects ==
    \/ ObjLine
    \/ ObjPlane
    \/ ObjRotation
    \/ ObjFold
    \/ ObjEquals
    \/ ObjDirectionCosines
    \/ ObjRotateAround
    \/ ObjPole
    \/ ObjFromPole
    \/ ObjFromSpanningLines
    \/ ObjConstituentLines
    \/ ObjProfilePlaneStrike
    \/ ObjProfilePlaneDip
    \/ ObjProfilePlaneDipOwnStrike
    \/ ObjProfilePlane
    \/ ObjAxialPlane
    \/ ObjAxialPlaneOwnProfile

SpecObjects == Init /\ [][NextObjects]_vars

NextPlot ==
    \/ EqualAngleCoordinates
    \/ EqualAreaCoordinates
    \/ PlaneConstituentLines

SpecPlot == Init /\ [][NextPlot]_vars

NextGroup ==
    \/ NewGroup
    \/ GroupAddNetObject
    \/ GroupRemoveNetObject
    \/ GroupSetDataType
    \/ GroupRegisterAddItem
    \/ GroupRegisterRemoveItem

SpecGroup == Init /\ [][NextGroup]_vars

NextNet ==
    \/ NetPlot
    \/ NetRemoveNetObject
    \/ NetBindNetObject
    \/ NetEvent

SpecNet == Init /\ [][NextNet]_vars

NextSerialize ==
    \/ Encode
    \/ Decode

SpecSerialize == Init /\ [][NextSerialize]_vars

NextSearch ==
    \/ NewFold
    \/ ProfilePlaneDipOfIncrement
    \/ SearchStep
    \/ DipEnd

\* A turn of the loop whichever way its test goes: the steps of SearchStep
\* are turns, and a turn can be taken exactly when SearchStep can.
LoopTurn ==
    /\ fold.pc = "search"
    /\ InRange(fold.dip)
    /\ Len(fold.evaluated) < MaxEvaluated
    /\ \E found \in {fold.possible_dips, Append(fold.possible_dips, fold.dip)} :
          fold' = [fold EXCEPT !.possible_dips = found,
                               !.evaluated = Append(@, fold.dip),
                               !.dip = dip_plus(@, <<fold.increment, fold.rest>>)]
    /\ OnlyFold

\* The loop is sequential code: while it can take a turn it does, and when it
\* is left the call ends.
SpecSearch ==
    Init /\ [][NextSearch]_vars /\ WF_vars(LoopTurn) /\ WF_vars(DipEnd)

NextAxial == AxialPlane \/ ProfilePlaneStrike

SpecAxial == Init /\ [][NextAxial]_vars

\* ------------------------------------------------------------ properties

\* Two direction-cosine vectors agree within the tolerance of the whole-degree
\* angles (assertAlmostEqual of the tests, at the model's resolution).
Tol == Scale \div 50

Near(v, w) == \A i \in 1..3 : Abs(v[i][1] - w[i][1]) <= Tol

\* A vector of length 1.
IsUnit(v) ==
    Abs(ISqrt(v[1][1] * v[1][1] + v[2][1] * v[2][1] + v[3][1] * v[3][1]) - Scale) <= 2

Made(op) == Len(hist) >= 1 /\ hist[1].op = op

Parallel(u, w) ==
    LET c == cross_product(u, w)
    IN c[1][1] = 0 /\ c[2][1] = 0 /\ c[3][1] = 0

\* C3 as claimed: from_spanning_direction_cosines and from_spanning_lines
\* raise the 'need non-parallel lines' AssertionError whenever their inputs
\* are parallel or antiparallel, a multiple of one another included.
C3_ParallelRaisesAssertion ==
    /\ Made("Plane.from_spanning_direction_cosines") =>
          (Parallel(hist[1].arg[1], hist[1].arg[2])
              => hist[1].ret.err = "AssertionError")
    /\ Made("Plane.from_spanning_lines") =>
          (Parallel(Line_direction_cosines(hist[1].arg[1]),
                    Line_direction_cosines(hist[1].arg[2]))
              => hist[1].ret.err = "AssertionError")

RoundTrip ==
    /\ Len(hist) = 2
    /\ hist[1].op = "Line.from_direction_cosines"
    /\ hist[2].op = "Line.direction_cosines"
    /\ IsUnit(hist[1].arg)

\* C5 as claimed: for every unit vector v, of any signs, the direction
\* cosines of Line.from_direction_cosines(v) are v again.
C5_RoundTripAnySign ==
    RoundTrip => Near(hist[2].ret.val, hist[1].arg)

\* C5 amended: the direction cosines of Line.from_direction_cosines(v) are v
\* when down >= 0 and the opposite vector -v when down < 0.
C5_RoundTripLowerHemisphere ==
    RoundTrip =>
        IF Lt0(hist[1].arg[3])
        THEN Near(hist[2].ret.val, VNeg(hist[1].arg))
        ELSE Near(hist[2].ret.val, hist[1].arg)

\* C5 witness: a round trip of a vector pointing north-west and up.
C5_Witness ==
    /\ RoundTrip
    /\ hist[1].arg[1][1] > 0 /\ hist[1].arg[2][1] < 0 /\ hist[1].arg[3][1] < 0

\* The Plane invariant: strike in [0, 360), dip in [0, 90].
PlaneInvariant(p) == 0 <= p.strike /\ p.strike < 360 /\ 0 <= p.dip /\ p.dip <= 90

PoleAndBack ==
    /\ Len(hist) = 3
    /\ hist[2].op = "Plane.pole"
    /\ hist[3].op = "Plane.from_pole"
    /\ PlaneInvariant(hist[1].ret.val)

\* C6: for every Plane p within the invariant, Plane.from_pole(p.pole()) has
\* the strike and the dip of p.
C6_FromPoleOfPole ==
    PoleAndBack =>
        /\ hist[3].ret.val.strike = hist[1].ret.val.strike
        /\ hist[3].ret.val.dip = hist[1].ret.val.dip

\* C6 witness: a dipping plane whose pole's trend wraps below 0.
C6_Witness ==
    /\ PoleAndBack
    /\ hist[1].ret.val.strike < 90
    /\ hist[1].ret.val.dip > 0 /\ hist[1].ret.val.dip < 90
    /\ hist[2].ret.val.trend > 270

\* ------------------------------------------------------------ rotation
\* The properties of Line.rotate_around, checked under SpecRotate.

Rotation == Made("Line.rotate_around")

self_ == hist[1].arg[1]

axis_ == hist[1].arg[2]

lat_ == hist[1].arg[3]

\* R.v of the call made: rot_cosines before the two corrections.
rot_cosines == Rotated(self_, axis_, lat_)

\* The direction cosines of the Line the call returned.
result_cosines == Line_direction_cosines(hist[1].ret.val)

\* C7: for every Line l, vertical ones of any trend included, and every axis a,
\* l.rotate_around(a, 0) returns a Line with the plunge and the trend of l.
C7_RotateByZero ==
    (Rotation /\ lat_ = 0) =>
        /\ hist[1].ret.err = "none"
        /\ hist[1].ret.val.plunge = self_.plunge
        /\ hist[1].ret.val.trend = self_.trend

\* A vertical line of trend other than 0 was rotated by 0 around another line.
C7_Witness ==
    /\ Rotation
    /\ lat_ = 0
    /\ self_.plunge = 90
    /\ self_.trend = 3 * Step
    /\ axis_ # self_
    /\ hist[1].ret.val = self_

\* C8: for every Line l and every angle, of either sign and beyond a full
\* turn, l.rotate_around(l, angle) has the direction of l.
C8_RotateAroundSelf ==
    (Rotation /\ axis_ = self_) =>
        /\ hist[1].ret.err = "none"
        /\ Near(result_cosines, Line_direction_cosines(self_))
        /\ Len(hist) = 2 =>
              Near(hist[2].ret.val, Line_direction_cosines(self_))

\* A horizontal line was rotated around itself by more than a full turn, and
\* its direction cosines were read.
C8_Witness ==
    /\ Rotation
    /\ Len(hist) = 2
    /\ axis_ = self_
    /\ self_.plunge = 0
    /\ Abs(lat_) > 360
    /\ Near(hist[2].ret.val, Line_direction_cosines(self_))

IsBoundaryCase ==
    /\ Rotation
    /\ self_ = Line_init(Deg(0), Deg(0))
    /\ axis_ = Line_init(Deg(45), Deg(270))
    /\ lat_ = 180

\* C9: Line(0, 0).rotate_around(Line(pi/4, 3 pi/2), pi) is Line(0, pi), not the
\* opposite horizon point Line(0, 0).
C9_BoundaryCase ==
    IsBoundaryCase =>
        /\ hist[1].ret = Return(Line_init(Deg(0), Deg(180)))
        /\ hist[1].ret.val # Line_init(Deg(0), Deg(0))

\* The call was made, its rotated down component was a negative residue below
\* epsilon, and Line(0, pi) came back.
C9_Witness ==
    /\ IsBoundaryCase
    /\ InEpsilon(rot_cosines[3])
    /\ hist[1].ret.val = [plunge |-> 0, trend |-> 180]

InLowerHemisphere ==
    /\ hist[1].ret.err = "none"
    /\ hist[1].ret.val.plunge >= 0
    /\ Ge0(result_cosines[3])

\* C10 as claimed: the returned Line is in the lower hemisphere, it is R.v when
\* the down component of R.v is >= 0, and -R.v exactly when that down component
\* is negative.
C10_AntipodeWhenNegative ==
    Rotation =>
        /\ InLowerHemisphere
        /\ Near(result_cosines, VNeg(rot_cosines)) <=> Lt0(rot_cosines[3])
        /\ Ge0(rot_cosines[3]) => Near(result_cosines, rot_cosines)

\* down <= -sys.float_info.epsilon
BelowEpsilon(down) == Lt0(down) /\ ~InEpsilon(down)

\* C10 as the code has it: the returned Line is in the lower hemisphere; it is
\* -R.v exactly when the down component of R.v is -epsilon or less, and R.v
\* (with down set to 0 when it was between -epsilon and 0) otherwise, so that a
\* down component of 0 is never negated.
C10_AntipodeBelowEpsilon ==
    Rotation =>
        /\ InLowerHemisphere
        /\ Near(result_cosines, VNeg(rot_cosines)) <=> BelowEpsilon(rot_cosines[3])
        /\ ~BelowEpsilon(rot_cosines[3]) => Near(result_cosines, rot_cosines)

\* A rotation ended on the horizon with a down component of exactly 0 and the
\* Line that came back is R.v, not its antipode.
C10_Witness ==
    /\ Rotation
    /\ lat_ # 0
    /\ axis_ # self_
    /\ rot_cosines[3] = Zero
    /\ hist[1].ret.val.plunge = 0
    /\ Near(result_cosines, rot_cosines)
    /\ ~Near(result_cosines, VNeg(rot_cosines))

\* ------------------------------------------------------------ dip search
\* The properties of Fold.profile_plane_dip, checked under SpecFold.

\* The candidate dips: -pi/2, -pi/2 + increment, ... up to pi/2.
Grid(increment) == {k * increment - 90 : k \in 0..(180 \div increment)}

\* The candidate dip splits the poles of the Fold in scope: round(n / 2) of
\* them are left of the plane.
YieldsSplit(dip) ==
    LeftCount(fold.poles, fold.strike, dip) = half_points(Len(fold.poles))

\* The search was reached: the strike was given, or was computed without error.
Searched == fold.pc = "done" /\ fold.evaluated # <<>>

\* What the parallel-lines precondition of Plane.from_spanning_* raises.
NeedNonParallel ==
    Plane_from_spanning_direction_cosines(Vec(Scale, 0, 0), Vec(Scale, 0, 0)).err

\* C4: profile_plane_dip, and profile_plane through it, end with ValueError
\* ('no profile plane found') exactly when no candidate dip of the grid splits
\* the poles in half; ValueError is not the error of the parallel-lines
\* precondition; with it comes no dip and no Plane.  When the strike cannot be
\* computed the search is not reached and the call ends with that other error.
C4_NoProfilePlaneFound ==
    fold.pc = "done" =>
        /\ Searched =>
             (fold.ret.err = "ValueError"
                 <=> \A dip \in Grid(fold.increment) : ~YieldsSplit(dip))
        /\ Searched => fold.ret.err \in {"none", "ValueError"}
        /\ ~Searched => fold.ret.err \notin {"none", "ValueError"}
        /\ fold.ret.err = "ValueError" =>
             /\ fold.ret.err # NeedNonParallel
             /\ fold.ret.val = <<>>
        /\ (fold.ret.err = "none" /\ fold.caller = "profile_plane") =>
             IsPlane(fold.ret.val)

\* profile_plane of three poles computed a strike, tried every candidate dip,
\* found none and raised ValueError.
C4_Witness ==
    /\ Searched
    /\ fold.caller = "profile_plane"
    /\ Len(fold.poles) = 3
    /\ Len(fold.evaluated) = Cardinality(Grid(fold.increment))
    /\ fold.possible_dips = <<>>
    /\ fold.ret = Raise("ValueError")

\* ------------------------------------------------------------ objects
\* The properties of the objects of the heap, checked under SpecObjects.

\* hash(rotation): of the axis and the base line, each hashed as a Line.
Rotation_hash(self) ==
    <<Line_hash(heap[self.rot_axis].val), Line_hash(heap[self.base_line].val)>>

\* The values two objects of one class are compared by, were == by value.
ValueOf(id) ==
    IF heap[id].cls = "Line" THEN Line_hash(heap[id].val)
    ELSE IF heap[id].cls = "Rotation" THEN Rotation_hash(heap[id].val)
    ELSE heap[id].val

Compared(cls) ==
    {i \in 1..Len(calls) : calls[i].op = "==" /\ heap[calls[i].args[1]].cls = cls}

\* C11: two Lines compare equal with == exactly when their canonical
\* (plunge, trend) pairs are equal, and two Rotations exactly when their
\* (axis, base line) pairs are equal.
C11_EqualByValue ==
    \A i \in Compared("Line") \cup Compared("Rotation") :
        calls[i].ret.val <=> (ValueOf(calls[i].args[1]) = ValueOf(calls[i].args[2]))

\* A call that was made twice on the same objects returned the same both times.
SameCallSameResult ==
    \A i \in 1..Len(calls), j \in 1..Len(calls) :
        (calls[i].op = calls[j].op /\ calls[i].args = calls[j].args)
            => calls[i].ret = calls[j].ret

\* The step leaves every object there is as it is: the plunge and trend of
\* every Line, the strike and dip of every Plane, the Lines of every Rotation,
\* the poles (which, and in which order) and the limb proportion of every Fold.
ObjectsKept ==
    /\ Len(heap') >= Len(heap)
    /\ \A i \in 1..Len(heap) : heap'[i] = heap[i]

PoleOfItem(self, i) ==
    IF heap[self.items[i]].cls = "Plane"
    THEN /\ heap[self.poles[i]].cls = "Line"
         /\ heap[self.poles[i]].val = pole(heap[self.items[i]].val)
    ELSE self.poles[i] = self.items[i]

\* C13: a Fold made of a list of Planes and Lines holds exactly one pole per
\* item, in the order of the items: the pole() of a Plane, the Line itself
\* for a Line; its limb proportion is the default, 0.5.
C13_OnePolePerItem ==
    \A f \in Ids("Fold") :
        /\ Len(heap[f].val.poles) = Len(heap[f].val.items)
        /\ \A i \in 1..Len(heap[f].val.items) : PoleOfItem(heap[f].val, i)
        /\ 2 * heap[f].val.top_limb_proportion = Scale

\* A Fold of a Plane and a Line, in either order.
C13_Witness ==
    \E f \in Ids("Fold") :
        /\ Len(heap[f].val.items) = 2
        /\ {heap[heap[f].val.items[i]].cls : i \in 1..2} = {"Plane", "Line"}

\* ------------------------------------------------------------ plotting
\* The properties of the projections and of the great circle of a Plane,
\* checked under SpecPlot.

Projected ==
    Len(hist) = 1 /\ hist[1].op \in {"EqualAngle.line_coordinates",
                                      "EqualArea.line_coordinates"}

\* x^2 + y^2 of a projected point, in 1/Scale^2.
RadiusSquared(xy) == xy[1][1] * xy[1][1] + xy[2][1] * xy[2][1]

InUnitDisk(xy) == RadiusSquared(xy) <= (Scale + Noise) * (Scale + Noise)

OnUnitCircle(xy) ==
    InUnitDisk(xy) /\ RadiusSquared(xy) >= (Scale - Noise) * (Scale - Noise)

\* C14: both projections map a Line of plunge pi/2, whatever its trend, to
\* the origin and a Line of plunge 0 to the unit circle, Line(0, 0) to (0, 1);
\* no Line is mapped outside the unit disk.
C14_ProjectionInUnitDisk ==
    Projected =>
        /\ InUnitDisk(hist[1].ret.val)
        /\ hist[1].arg.plunge = 90 => hist[1].ret.val = <<Zero, Zero>>
        /\ hist[1].arg.plunge = 0 => OnUnitCircle(hist[1].ret.val)
        /\ (hist[1].arg.plunge = 0 /\ hist[1].arg.trend = 0)
              => /\ hist[1].ret.val[1] = Zero
                 /\ Abs(hist[1].ret.val[2][1] - Scale) <= Noise

\* A horizontal Line of the equal-area net that points neither north nor
\* south is projected.
C14_Witness ==
    /\ Projected
    /\ hist[1].op = "EqualArea.line_coordinates"
    /\ hist[1].arg.plunge = 0
    /\ hist[1].arg.trend = 2 * Step

Sampled == Len(hist) = 1 /\ hist[1].op = "Rotation.constituent_lines"

\* The Line is perpendicular to the pole of the Plane.
OnGreatCircle(line, plane) ==
    Abs(dot_product(Line_direction_cosines(line),
                    Line_direction_cosines(pole(plane)))[1]) <= Tol

\* C15: the Rotation a Plane is has the pole of the Plane as its axis and the
\* horizontal Line(0, strike) as its base line; every Line that
\* constituent_lines yields is perpendicular to the pole, and the first one
\* is Line(0, strike).
C15_PlaneGreatCircle ==
    Sampled =>
        /\ hist[1].arg[1].rot_axis = pole(hist[1].arg[1])
        /\ hist[1].arg[1].base_line = Line_init(Deg(0), Deg(hist[1].arg[1].strike))
        /\ \A k \in 1..Len(hist[1].ret.val) :
              OnGreatCircle(hist[1].ret.val[k], hist[1].arg[1])
        /\ hist[1].ret.val[1] = Line_init(Deg(0), Deg(hist[1].arg[1].strike))

\* The great circle of an inclined Plane was sampled at five Lines.
C15_Witness ==
    /\ Sampled
    /\ Len(hist[1].ret.val) = 5
    /\ hist[1].arg[1].dip = Step
    /\ hist[1].arg[1].strike = 3 * Step

\* ------------------------------------------------------------ the group

\* C16: a DataGroup is a group of data of the same type: whatever was
\* constructed, added, removed and assigned, every datum the group holds is an
\* instance of the group's data_type.
C16_DataOfTheGroupType ==
    group.made =>
        \A i \in 1..Len(group.data) :
            isinstance(group.data[i].cls, group.data_type)

\* ------------------------------------------------------------ the pole of a plane

\* A Plane was made from a non-zero vector with down >= 0, and its direction
\* cosines and those of its pole were taken.
PoleCompared ==
    /\ Len(hist) = 4
    /\ hist[1].op = "Plane.from_direction_cosines"
    /\ hist[4].op = "Line.direction_cosines"
    /\ ~IsZeroVec(hist[1].arg)
    /\ Ge0(hist[1].arg[3])

\* C17: for every non-zero vector v with down >= 0, the direction cosines of
\* Plane.from_direction_cosines(v) are v normalised, and they are the direction
\* cosines of the pole() of that Plane.
C17_PoleIsWhatThePlaneWasMadeOf ==
    PoleCompared =>
        /\ Near(hist[2].ret.val, normalised(hist[1].arg))
        /\ Near(hist[2].ret.val, hist[4].ret.val)

\* C17 witness: a Plane made from a vector of length above 1 pointing south,
\* west and down.
C17_Witness ==
    /\ PoleCompared
    /\ hist[1].arg[1][1] = -Scale
    /\ hist[1].arg[2][1] = -Scale
    /\ hist[1].arg[3][1] = Scale

\* ------------------------------------------------------------ the Line of a vector

\* Line.from_direction_cosines(v) was called with a non-zero v, down >= 0.
LineOfVector ==
    /\ Len(hist) = 1
    /\ hist[1].op = "Line.from_direction_cosines"
    /\ ~IsZeroVec(hist[1].arg)
    /\ Ge0(hist[1].arg[3])

\* The trend by the signs of north and east of the normalised vector, in
\* degrees, before any reduction: 90 or 270 for north = 0, atan(east/north)
\* for north > 0, atan(east/north) + 180 for north < 0.
TrendBySigns(north, east) ==
    IF Is0(north) THEN (IF Ge0(east) THEN 90 ELSE 270)
    ELSE IF Lt0(north) THEN AtanRatio(east, north)[1] + 180
    ELSE AtanRatio(east, north)[1]

\* The examples: (1,0,0) gives Line(0, 0), (0,1,0) gives Line(0, 90),
\* (0,0,1) gives plunge 90, (1,0,1) gives Line(45, 0), (1,1,0) gives Line(0, 45).
ExamplesHold ==
    LET v    == hist[1].arg
        line == hist[1].ret.val
    IN /\ v = Vec(Scale, 0, 0) => line = [plunge |-> 0, trend |-> 0]
       /\ v = Vec(0, Scale, 0) => line = [plunge |-> 0, trend |-> 90]
       /\ v = Vec(0, 0, Scale) => line.plunge = 90
       /\ v = Vec(Scale, 0, Scale) => line = [plunge |-> 45, trend |-> 0]
       /\ v = Vec(Scale, Scale, 0) => line = [plunge |-> 0, trend |-> 45]

PlungeAndTrendBySigns ==
    /\ hist[1].ret.err = "none"
    /\ hist[1].ret.val.plunge = asin(normalised(hist[1].arg)[3][1])
    /\ (hist[1].ret.val.trend
          - TrendBySigns(normalised(hist[1].arg)[1],
                         normalised(hist[1].arg)[2])) % 360 = 0
    /\ ExamplesHold

EventOnPlotted ==
    /\ net.op = "event"
    /\ \E i \in 1..Len(net.netobjs) :
          /\ net.netobjs[i].widget = net.event.widget
          /\ net.netobjs[i].netobj = net.items[net.event.widget].netobj

\* The registrations of the command for the event code.
Registrations(event_code, command) ==
    IF event_code \in DOMAIN net.callbacks
    THEN {i \in 1..Len(net.callbacks[event_code]) :
             net.callbacks[event_code][i] = command}
    ELSE {}

\* The invocations of the command with the net object.
Invocations(command, netobj) ==
    {i \in 1..Len(net.invoked) :
        net.invoked[i] = [command |-> command, netobj |-> netobj]}

EncodedAndDecoded ==
    /\ Len(hist) = 2
    /\ hist[1].op = "stereonet_object_encoder"
    /\ hist[2].op = "stereonet_object_decoder"
    /\ TypeOf(hist[1].arg) \in {"Line", "Plane", "Rotation"}

\* The angle fields of a Line and of a Plane.
AngleNames(o) ==
    IF TypeOf(o) = "Line" THEN {"plunge", "trend"}
    ELSE IF TypeOf(o) = "Plane" THEN {"strike", "dip"}
    ELSE {}

\* The record holds every angle of the object in degrees: the number of
\* degrees of the angle, to the last place of the float.
InDegrees(o, record) ==
    /\ DOMAIN record = AngleNames(o)
    /\ \A f \in AngleNames(o) :
          record[f][1] = o[f] * Scale /\ Abs(record[f][2]) <= 1

\* The decoded object holds the very angles of the object encoded.
SameAngles(o, record, decoded) ==
    /\ TypeOf(decoded) = TypeOf(o)
    /\ \A f \in AngleNames(o) :
          decoded[f] = o[f] /\ radians(record[f])[2] = 0

\* The decoded object holds the angles of the object encoded to the last
\* place of the float, an angle of a full turn as 0.
AnglesKept(o, record, decoded) ==
    /\ TypeOf(decoded) = TypeOf(o)
    /\ \A f \in AngleNames(o) :
          /\ decoded[f] = (IF o[f] = 360 THEN 0 ELSE o[f])
          /\ Abs(radians(record[f])[2]) <= 1

\* A Rotation is written as its two Lines and read as a Rotation of them.
IsRotationRecord(record) == DOMAIN record = {"rotation_axis", "base_line"}

\* C20 as claimed: encoding a Line, a Plane or a Rotation and decoding the
\* result gives an object of the same type with the same angle fields, the
\* record holding the angles in degrees, and a Plane is written as strike
\* and dip.
C20_RoundTripSameAngles ==
    EncodedAndDecoded =>
        LET o       == hist[1].arg
            record  == hist[2].arg
            decoded == hist[2].ret.val
        IN IF TypeOf(o) = "Rotation"
           THEN /\ TypeOf(decoded) = "Rotation"
                /\ IsRotationRecord(record)
                /\ InDegrees(o.rot_axis, record.rotation_axis)
                /\ InDegrees(o.base_line, record.base_line)
                /\ SameAngles(o.rot_axis, record.rotation_axis, decoded.rot_axis)
                /\ SameAngles(o.base_line, record.base_line, decoded.base_line)
           ELSE InDegrees(o, record) /\ SameAngles(o, record, decoded)

\* C20 amended: the decoded object has the type of the object encoded and
\* its angles to the last place of the float, a trend or strike of a full
\* turn coming back as 0; the record holds the angles in degrees, and a Plane
\* is written as strike and dip only.
C20_RoundTripAnglesKept ==
    EncodedAndDecoded =>
        LET o       == hist[1].arg
            record  == hist[2].arg
            decoded == hist[2].ret.val
        IN IF TypeOf(o) = "Rotation"
           THEN /\ TypeOf(decoded) = "Rotation"
                /\ IsRotationRecord(record)
                /\ InDegrees(o.rot_axis, record.rotation_axis)
                /\ InDegrees(o.base_line, record.base_line)
                /\ AnglesKept(o.rot_axis, record.rotation_axis, decoded.rot_axis)
                /\ AnglesKept(o.base_line, record.base_line, decoded.base_line)
           ELSE InDegrees(o, record) /\ AnglesKept(o, record, decoded)

\* C20 witness: a dipping Plane of a strike other than 0 was encoded and
\* decoded.
C20_Witness ==
    /\ EncodedAndDecoded
    /\ TypeOf(hist[1].arg) = "Plane"
    /\ hist[1].arg.strike = 9 * FineStep
    /\ hist[1].arg.dip = 2 * FineStep
    /\ TypeOf(hist[2].ret.val) = "Plane"

\* ------------------------------------------------------------ the group's errors

\* add_net_object was called on a group that has a data_type, with an object
\* that is not an instance of it.
AddedOfAnotherType ==
    /\ group.made
    /\ group.data_type # None
    /\ group'.op = "add_net_object"
    /\ group' # group
    /\ ~isinstance(group'.arg.cls, group.data_type)

\* C28: add_net_object with an object that is not an instance of the group's
\* data_type raises TypeError, leaves the data and the data_type as they
\* were and invokes no add_item callback, whether the group holds data or is
\* empty with a data_type set.
C28_OtherTypeRaisesTypeError ==
    [][AddedOfAnotherType =>
          /\ group'.ret.err = "TypeError"
          /\ group'.data = group.data
          /\ group'.data_type = group.data_type
          /\ group'.invoked = <<>>]_vars

\* The data_type was assigned to.
Assigned == group.made /\ group'.op = "data_type" /\ group' # group

\* C29: assigning data_type while the group holds data raises ValueError when
\* the value differs from the data_type and leaves data_type and data as they
\* were; assigning the data_type the group has changes nothing; assigning to
\* an empty group replaces the data_type.
C29_DataTypeAssignment ==
    [][Assigned =>
          /\ group'.data = group.data
          /\ group'.invoked = <<>>
          /\ IF group.data = <<>>
             THEN group'.ret.err = "none" /\ group'.data_type = group'.arg
             ELSE IF group'.arg # group.data_type
             THEN group'.ret.err = "ValueError"
                  /\ group'.data_type = group.data_type
             ELSE group'.ret.err = "none"
                  /\ group'.data_type = group.data_type]_vars

\* C29 witness: a group holding data refused another data_type.
C29_Witness ==
    /\ group.made
    /\ group.op = "data_type"
    /\ group.ret.err = "ValueError"
    /\ group.data # <<>>
    /\ group.arg # group.data_type

\* The objects a list holds, with the number of times it holds each.
Held(data, netobj) == Cardinality({i \in 1..Len(data) : data[i] = netobj})

\* What the callbacks of a list are called with after a change of the data:
\* each callback once, in the order of registration, with the object, the
\* group holding the data after the change.
EachOnce(callbacks, netobj, data) ==
    /\ Len(group'.invoked) = Len(callbacks)
    /\ \A i \in 1..Len(callbacks) :
          /\ group'.invoked[i].callback = callbacks[i]
          /\ group'.invoked[i].netobj = netobj
          /\ group'.invoked[i].net_objects = data

\* C30: a successful add_net_object calls every add_item callback once, in
\* the order of registration, with the object, which net_objects() then
\* holds; a successful remove_net_object calls every remove_item callback
\* likewise, one holding of the object being gone from net_objects(); a
\* remove_net_object of an object the group does not hold raises, changes
\* nothing and calls no callback.
C30_CallbacksOfTheGroup ==
    [][/\ (group.made /\ group'.op = "add_net_object" /\ group' # group
             /\ group'.ret.err = "none") =>
             /\ EachOnce(group.add_item, group'.arg, group'.data)
             /\ group'.data = Append(group.data, group'.arg)
       /\ (group.made /\ group'.op = "remove_net_object" /\ group' # group) =>
             IF Held(group.data, group'.arg) = 0
             THEN /\ group'.ret.err = "ValueError"
                  /\ group'.data = group.data
                  /\ group'.data_type = group.data_type
                  /\ group'.invoked = <<>>
             ELSE /\ group'.ret.err = "none"
                  /\ EachOnce(group.remove_item, group'.arg, group'.data)
                  /\ Len(group'.data) = Len(group.data) - 1
                  /\ Held(group'.data, group'.arg)
                        = Held(group.data, group'.arg) - 1]_vars

\* C30 witness: two different add_item callbacks were called for the second
\* object added, which stands last in the data they were shown.
C30_Witness ==
    /\ group.made
    /\ group.op = "add_net_object"
    /\ group.ret.err = "none"
    /\ Len(group.data) = 2
    /\ Len(group.invoked) = 2
    /\ group.invoked[1].callback = group.add_item[1]
    /\ group.invoked[1].callback # group.invoked[2].callback
    /\ group.invoked[2].net_objects[2] = group.arg

\* ------------------------------------------------------------ the dot product

\* The dot product of a vector with a vector along one axis was taken.
DotWithAxis(i) ==
    /\ Made("DirectionCosines.dot_product")
    /\ hist[1].arg[2] = [k \in 1..3 |-> IF k = i THEN One ELSE Zero]

\* C21: for every vector v the dot product with (1,0,0) is v.north, with
\* (0,1,0) v.east and with (0,0,1) v.down, exactly.
C21_DotProductWithAnAxis ==
    \A i \in 1..3 : DotWithAxis(i) => hist[1].ret.val = hist[1].arg[1][i]

\* C21 witness: the dot product with (0,0,1) of a vector whose components are
\* all different from 0 and from each other.
C21_Witness ==
    /\ DotWithAxis(3)
    /\ hist[1].arg[1][1][1] < 0
    /\ hist[1].arg[1][2][1] > 0
    /\ hist[1].arg[1][3][1] > hist[1].arg[1][2][1]

\* ------------------------------------------------------------ the axial plane

\* axial_plane was called on a Fold of three poles or more with a proportion
\* between 0 and 1.
AxialPlaneCalled ==
    /\ Made("Fold.axial_plane")
    /\ Len(hist[1].arg[1]) >= 3
    /\ 0 < hist[1].arg[2] /\ hist[1].arg[2] < Scale

\* The poles at the places max(0, cutoff - 1) to min(n - 1, cutoff + 1) of the
\* sorted poles, counted from 0.
ClampedWindow(sorted, c) ==
    SubSeq(sorted, Max2(0, c - 1) + 1,
           (IF c + 1 < Len(sorted) - 1 THEN c + 1 ELSE Len(sorted) - 1) + 1)

\* C22: for n >= 3 poles and a proportion p in (0, 1) axial_plane averages
\* the poles at the places max(0, cutoff - 1) to min(n - 1, cutoff + 1) of the
\* poles sorted north to south, cutoff = round(p n), a window that is never
\* empty, also when cutoff = 0.
C22_WindowClampedNotEmpty ==
    AxialPlaneCalled =>
        LET sorted == NorthToSouth(hist[1].arg[1], hist[1].arg[3].strike)
            c      == cutoff(hist[1].arg[2], Len(hist[1].arg[1]))
        IN /\ Window(sorted, hist[1].arg[2]) = ClampedWindow(sorted, c)
           /\ Window(sorted, hist[1].arg[2]) # <<>>
           /\ hist[1].ret.err # "StopIteration"

\* ------------------------------------------------------------ the strike
\*                                                  of the profile plane

\* The sorted direction cosines profile_plane_strike works on.
StrikeCosines ==
    SortedByDown([i \in 1..Len(hist[1].arg[1]) |->
                     Line_direction_cosines(hist[1].arg[1][i])])

\* C23: profile_plane_strike sums one sign-aligned difference for every
\* unordered pair of poles, n (n - 1) / 2 differences for n poles, also when
\* several poles have the same direction cosines, and each difference summed
\* has a non-negative dot product with the reference direction.
C23_OneDifferencePerPair ==
    Made("Fold.profile_plane_strike") =>
        LET dc == StrikeCosines
            n  == Len(dc)
        IN /\ Len(differences(dc)) = (n * (n - 1)) \div 2
           /\ \A i \in 1..n : \A j \in (i + 1)..n :
                 \E k \in 1..Len(differences(dc)) :
                    differences(dc)[k] = VSub(dc[j], dc[i])

\* ------------------------------------------------------------ the dip
\*                                                  of the profile plane

\* profile_plane_dip returned a dip.
DipReturned ==
    /\ fold.pc = "done"
    /\ fold.caller = "profile_plane_dip"
    /\ fold.ret.err = "none"

\* n / 2 rounded to a whole number, a half going to the even neighbour.
RoundHalfEven(n) ==
    IF n % 2 = 0 THEN n \div 2
    ELSE IF (n \div 2) % 2 = 0 THEN n \div 2 ELSE n \div 2 + 1

\* The dips of the grid at which as many poles as wanted are left of the plane.
DipsWithLeft(wanted) ==
    {dip \in Grid(fold.increment) :
        LeftCount(fold.poles, fold.strike, dip) = wanted}

\* The dip returned is the arithmetic mean of the dips accepted (within the
\* rounding of the division) and lies between -pi/2 and pi/2.
MeanReturned ==
    /\ Abs(fold.ret.val[1] * Len(fold.possible_dips)
             - Scale * SumDips(fold.possible_dips)) <= Len(fold.possible_dips)
    /\ -90 * Scale <= fold.ret.val[1]
    /\ fold.ret.val[1] <= 90 * Scale

\* The dips accepted are these dips, each once.
AcceptedAre(dips) ==
    /\ {fold.possible_dips[k] : k \in 1..Len(fold.possible_dips)} = dips
    /\ Len(fold.possible_dips) = Cardinality(dips)

\* C24 as stated: the dip profile_plane_dip returns is the mean of exactly the
\* candidate dips at which exactly half of the n poles are left of the plane,
\* and lies in [-pi/2, pi/2].
C24_MeanOfDipsWithHalfLeft ==
    DipReturned =>
        /\ \A dip \in DipsWithLeft(RoundHalfEven(Len(fold.poles))) :
              2 * LeftCount(fold.poles, fold.strike, dip) = Len(fold.poles)
        /\ AcceptedAre({dip \in Grid(fold.increment) :
              2 * LeftCount(fold.poles, fold.strike, dip) = Len(fold.poles)})
        /\ MeanReturned

\* C24: the dip profile_plane_dip returns is the mean of exactly the candidate
\* dips -pi/2 + k increment <= pi/2 at which round(n / 2) of the n poles are
\* left of the plane, round taking a half to the even neighbour (none of 1,
\* 2 of 3), which is half of the poles for an even n only; it lies in
\* [-pi/2, pi/2].
C24_MeanOfDipsWithRoundedHalfLeft ==
    DipReturned =>
        /\ AcceptedAre(DipsWithLeft(RoundHalfEven(Len(fold.poles))))
        /\ fold.possible_dips # <<>>
        /\ MeanReturned

\* A dip was returned for three poles, the mean of several candidates at which
\* two of the three are left of the plane.
C24_Witness ==
    /\ DipReturned
    /\ Len(fold.poles) = 3
    /\ Len(fold.possible_dips) >= 2
    /\ \A k \in 1..Len(fold.possible_dips) :
          LeftCount(fold.poles, fold.strike, fold.possible_dips[k]) = 2

\* ------------------------------------------------------------ the end
\*                                                  of the dip search

\* The candidates evaluated so far are in increasing order of dip, each once,
\* and no more than floor(pi / increment) + 1 of them.
EvaluatedInOrder ==
    fold.pc \in {"search", "done"} =>
        /\ \A i \in 1..Len(fold.evaluated) : \A j \in (i + 1)..Len(fold.evaluated) :
              fold.evaluated[i] < fold.evaluated[j]
        /\ fold.increment > 0 =>
              Len(fold.evaluated) <= 180 \div fold.increment + 1

\* C25: for every increment > 0 and every list of poles the dip search of
\* profile_plane_dip evaluates at most floor(pi / increment) + 1 candidates,
\* each once and in increasing order of dip, and then ends: the call returns
\* a dip or raises ValueError ('no profile plane found').
C25_SearchTerminates ==
    /\ []EvaluatedInOrder
    /\ (fold.pc = "search")
          ~> (fold.pc = "done" /\ fold.ret.err \in {"none", "ValueError"})

\* ------------------------------------------------------------ the plane
\*                                                  of two lines

\* from_spanning_lines was called on two Lines that are not parallel.
SpannedByTwoLines ==
    /\ Made("Plane.from_spanning_lines")
    /\ ~Parallel(Line_direction_cosines(hist[1].arg[1]),
                 Line_direction_cosines(hist[1].arg[2]))

\* The Line lies in the Plane: it is perpendicular to the pole of the Plane.
Contains(plane, line) ==
    Abs(dot_product(Line_direction_cosines(pole(plane)),
                    Line_direction_cosines(line))[1]) <= Tol

\* The Plane from_spanning_lines returns for the two Lines given the other
\* way round.
OtherOrder == Plane_from_spanning_lines(hist[1].arg[2], hist[1].arg[1])

\* The Plane returned contains both Lines and its pole points downwards or is
\* horizontal.
SpannedPlane ==
    /\ hist[1].ret.err = "none"
    /\ Contains(hist[1].ret.val, hist[1].arg[1])
    /\ Contains(hist[1].ret.val, hist[1].arg[2])
    /\ Ge0(Line_direction_cosines(pole(hist[1].ret.val))[3])

\* C26 as stated: for two Lines that are not parallel from_spanning_lines
\* returns a Plane that contains both: its pole is perpendicular to either
\* Line and points into the lower hemisphere (down >= 0); the Plane is the
\* same whichever of the two Lines is given first.
C26_SpannedPlaneInEitherOrder ==
    SpannedByTwoLines => (SpannedPlane /\ hist[1].ret = OtherOrder)

\* The two Planes are vertical and strike in opposite directions: the same
\* plane, with poles opposite to each other on the horizon.
VerticalAndOpposite(p, q) ==
    /\ p.dip = 90
    /\ q.dip = 90
    /\ (p.strike - q.strike) % 360 = 180

\* C26: for two Lines that are not parallel from_spanning_lines returns a
\* Plane that contains both, its pole perpendicular to either Line with
\* down >= 0; given the Lines the other way round it returns the same Plane,
\* or, when the plane is vertical, possibly the Plane of the opposite strike.
C26_SpannedPlaneSameUpToStrikeOfVertical ==
    SpannedByTwoLines =>
        /\ SpannedPlane
        /\ OtherOrder.err = "none"
        /\ \/ hist[1].ret = OtherOrder
           \/ VerticalAndOpposite(hist[1].ret.val, OtherOrder.val)

\* Two Lines of a vertical plane were given, and the other order gives the
\* Plane of the opposite strike.
C26_Witness ==
    /\ SpannedByTwoLines
    /\ hist[1].ret.err = "none"
    /\ hist[1].ret.val.dip = 90
    /\ hist[1].ret # OtherOrder

\* ------------------------------------------------------------ the lines
\*                                                  of a rotation

\* constituent_lines was called on a Rotation for one sample or more.
Swept ==
    /\ Made("Rotation.constituent_lines")
    /\ hist[1].arg[2] >= 1

\* The base line of the Rotation turned around its axis by i pi / samples.
TurnedBy(i) ==
    Line_rotate_around(hist[1].arg[1].base_line, hist[1].arg[1].rot_axis,
                       (i * 180) \div hist[1].arg[2]).val

\* C27: constituent_lines(samples), samples >= 1, yields samples + 1 Lines,
\* the i-th (i = 0 .. samples) the base line rotated about the axis by
\* i pi / samples: from angle 0, which gives the base line itself, in
\* increasing order up to pi, which is included.
C27_SweepFromZeroToPi ==
    Swept =>
        /\ hist[1].ret.err = "none"
        /\ Len(hist[1].ret.val) = hist[1].arg[2] + 1
        /\ \A i \in 0..hist[1].arg[2] : hist[1].ret.val[i + 1] = TurnedBy(i)
        /\ hist[1].ret.val[1] = hist[1].arg[1].base_line
        /\ hist[1].ret.val[hist[1].arg[2] + 1]
              = Line_rotate_around(hist[1].arg[1].base_line,
                                   hist[1].arg[1].rot_axis, 180).val

\* A line was swept around another axis in four steps, and the last of the
\* five Lines is not the first.
C27_Witness ==
    /\ Swept
    /\ hist[1].arg[2] = 4
    /\ hist[1].arg[1].rot_axis # hist[1].arg[1].base_line
    /\ Len(hist[1].ret.val) = 5
    /\ hist[1].ret.val[5] # hist[1].ret.val[1]

====
